---- MODULE Spec2Model ----
(***************************************************************************)
(* Model of the agents of strands-sdk-agent-tester: the keyword routers,   *)
(* the tools they dispatch to, the fallback to the LLM bridge and the      *)
(* conversation-history bookkeeping of the six agent classes.              *)
(*                                                                         *)
(* Python strings are modelled as sequences of one-character strings, so   *)
(* that substring tests, case folding, splitting and the regular           *)
(* expressions of the routers are computed, not assumed.                   *)
(***************************************************************************)
EXTENDS Integers, Sequences, FiniteSets, TLC

(***************************************************************************)
(* Python str operations                                                   *)
(***************************************************************************)
UpperChars == <<"A","B","C","D","E","F","G","H","I","J","K","L","M","N","O","P","Q","R","S","T","U","V","W","X","Y","Z">>
LowerChars == <<"a","b","c","d","e","f","g","h","i","j","k","l","m","n","o","p","q","r","s","t","u","v","w","x","y","z">>
DigitChars == {"0", "1", "2", "3", "4", "5", "6", "7", "8", "9"}
SpaceChars == {" ", "\n", "\t"}

IsUpper(c) == \E i \in 1..26 : UpperChars[i] = c
IsLower(c) == \E i \in 1..26 : LowerChars[i] = c
IsDigit(c) == c \in DigitChars
IsSpace(c) == c \in SpaceChars
\* \w of the re module
IsWordChar(c) == IsUpper(c) \/ IsLower(c) \/ IsDigit(c) \/ c = "_"

DigitVal(c) == CHOOSE n \in 0..9 : <<"0", "1", "2", "3", "4", "5", "6", "7", "8", "9">>[n + 1] = c

lower_char(c) == IF IsUpper(c) THEN LowerChars[CHOOSE i \in 1..26 : UpperChars[i] = c] ELSE c
\* str.lower()
lower(s) == [i \in 1..Len(s) |-> lower_char(s[i])]

\* s[i:] and s[:i] with 1-based positions
From(s, i) == SubSeq(s, i, Len(s))
Upto(s, i) == SubSeq(s, 1, i)

StartsAt(s, p, i) == i + Len(p) - 1 <= Len(s) /\ SubSeq(s, i, i + Len(p) - 1) = p
\* p in s
contains(s, p) == \E i \in 1..(Len(s) - Len(p) + 1) : StartsAt(s, p, i)
\* any(p in s for p in ps)
contains_any(s, ps) == \E p \in ps : contains(s, p)
\* str.find(p), 0 when absent, else the 1-based position of the first occurrence
find(s, p) ==
    IF contains(s, p)
    THEN CHOOSE i \in 1..(Len(s) - Len(p) + 1) :
            StartsAt(s, p, i) /\ \A j \in 1..(i - 1) : ~StartsAt(s, p, j)
    ELSE 0

RECURSIVE lstrip(_)
lstrip(s) == IF s # <<>> /\ IsSpace(Head(s)) THEN lstrip(Tail(s)) ELSE s
RECURSIVE rstrip(_)
rstrip(s) == IF s # <<>> /\ IsSpace(s[Len(s)]) THEN rstrip(Upto(s, Len(s) - 1)) ELSE s
\* str.strip()
strip(s) == rstrip(lstrip(s))

\* str.split(sep): the pieces between the non-overlapping occurrences of sep
RECURSIVE split(_, _)
split(s, sep) ==
    LET i == find(s, sep)
    IN  IF i = 0 THEN <<s>>
        ELSE <<Upto(s, i - 1)>> \o split(From(s, i + Len(sep)), sep)
\* str.split(sep, 1)
split1(s, sep) ==
    LET i == find(s, sep)
    IN  IF i = 0 THEN <<s>> ELSE <<Upto(s, i - 1), From(s, i + Len(sep))>>

\* str.split(): the maximal runs of non-whitespace characters
RECURSIVE split_ws(_)
split_ws(s) ==
    LET t == lstrip(s)
    IN  IF t = <<>> THEN <<>>
        ELSE LET n == IF \E i \in 1..Len(t) : IsSpace(t[i])
                      THEN (CHOOSE i \in 1..Len(t) :
                                IsSpace(t[i]) /\ \A j \in 1..(i - 1) : ~IsSpace(t[j])) - 1
                      ELSE Len(t)
             IN  <<Upto(t, n)>> \o split_ws(From(t, n + 1))

\* str.replace(old, new)
RECURSIVE replace(_, _, _)
replace(s, old, new) ==
    LET i == find(s, old)
    IN  IF i = 0 \/ old = <<>> THEN s
        ELSE Upto(s, i - 1) \o new \o replace(From(s, i + Len(old)), old, new)

\* Optional[str]
None == [some |-> FALSE, s |-> <<>>]
Some(s) == [some |-> TRUE, s |-> s]

\* re.search(r'"([^"]*)"', s): group 1 of the first double-quoted span
search_quoted(s) ==
    LET q == <<"\"">>
        i == find(s, q)
    IN  IF i = 0 THEN None
        ELSE LET rest == From(s, i + 1)
                 j == find(rest, q)
             IN  IF j = 0 THEN None ELSE Some(Upto(rest, j - 1))

\* re.findall(r'[CLASS]+', s): the maximal runs of characters of a class, in order
RECURSIVE findall_runs(_, _)
findall_runs(s, cls) ==
    IF \A i \in 1..Len(s) : s[i] \notin cls THEN <<>>
    ELSE LET b == CHOOSE i \in 1..Len(s) : s[i] \in cls /\ \A j \in 1..(i - 1) : s[j] \notin cls
             t == From(s, b)
             n == IF \E i \in 1..Len(t) : t[i] \notin cls
                  THEN (CHOOSE i \in 1..Len(t) :
                            t[i] \notin cls /\ \A j \in 1..(i - 1) : t[j] \in cls) - 1
                  ELSE Len(t)
         IN  <<Upto(t, n)>> \o findall_runs(From(t, n + 1), cls)

\* max(xs, key=len): the first element of greatest length
max_by_len(xs) ==
    xs[CHOOSE i \in 1..Len(xs) :
          /\ \A j \in 1..Len(xs) : Len(xs[j]) <= Len(xs[i])
          /\ \A j \in 1..(i - 1) : Len(xs[j]) < Len(xs[i])]

(***************************************************************************)
(* Python expression evaluation, eval(expression[, globals]), on the       *)
(* fragment the calculators are given: number literals, + - * / // **,     *)
(* unary sign, parentheses, names, string literals, attribute access and   *)
(* calls.  A character outside this alphabet is a syntax error here; no    *)
(* input of the model holds an operator of Python outside the fragment.    *)
(***************************************************************************)
\* values: a rational number n/d, a float whose magnitude is not modelled
\* ("real"), a function of the evaluation context, a host object, a raised
\* exception, or a syntax error found while compiling
RECURSIVE GCD(_, _)
GCD(a, b) == IF b = 0 THEN a ELSE GCD(b, a % b)
Abs(n) == IF n < 0 THEN -n ELSE n
NumV(n, d) ==
    LET g == GCD(Abs(n), Abs(d))
        sgn == IF d < 0 THEN -1 ELSE 1
    IN  [k |-> "num", n |-> (sgn * n) \div g, d |-> (sgn * d) \div g, f |-> <<>>, e |-> ""]
RealV == [k |-> "real", n |-> 0, d |-> 1, f |-> <<>>, e |-> ""]
FuncV(name) == [k |-> "func", n |-> 0, d |-> 1, f |-> name, e |-> ""]
ObjV == [k |-> "obj", n |-> 0, d |-> 1, f |-> <<>>, e |-> ""]
ErrV(exc) == [k |-> "err", n |-> 0, d |-> 1, f |-> <<>>, e |-> exc]
SyntaxV == ErrV("SyntaxError")
IsErr(v) == v.k = "err"
IsSyntax(v) == v.k = "err" /\ v.e = "SyntaxError"

\* the exception classes that do not derive from Exception
BaseOnly == {"BaseException", "SystemExit", "KeyboardInterrupt", "GeneratorExit"}
\* except Exception: catches exc
IsException(exc) == exc \notin BaseOnly

RECURSIVE IntOf(_)
IntOf(ds) == IF ds = <<>> THEN 0 ELSE 10 * IntOf(Upto(ds, Len(ds) - 1)) + DigitVal(ds[Len(ds)])
RECURSIVE Pow(_, _)
Pow(b, x) == IF x = 0 THEN 1 ELSE b * Pow(b, x - 1)
IsSquare(n) == n >= 0 /\ \E r \in 0..n : r * r = n
ISqrt(n) == CHOOSE r \in 0..n : r * r = n

\* length of the longest prefix of s made of characters of cls
RunLen(s, cls) ==
    IF \E i \in 1..Len(s) : s[i] \notin cls
    THEN (CHOOSE i \in 1..Len(s) : s[i] \notin cls /\ \A j \in 1..(i - 1) : s[j] \in cls) - 1
    ELSE Len(s)

Token(t, s, v) == [t |-> t, s |-> s, v |-> v]
EndTok == Token("end", <<>>, NumV(0, 1))
WordChars == {UpperChars[i] : i \in 1..26} \cup {LowerChars[i] : i \in 1..26}
                \cup DigitChars \cup {"_"}

\* the tokenizer of the Python compiler on the fragment
RECURSIVE Tokenize(_)
Tokenize(s0) ==
    LET s == lstrip(s0)
    IN  IF s = <<>> THEN <<>>
        ELSE LET c == Head(s)
                 c2 == IF Len(s) >= 2 THEN s[2] ELSE ""
             IN
             IF IsDigit(c) \/ (c = "." /\ IsDigit(c2)) THEN
                LET ni == RunLen(s, DigitChars)
                    r1 == From(s, ni + 1)
                    dot == r1 # <<>> /\ Head(r1) = "."
                    r2 == IF dot THEN Tail(r1) ELSE r1
                    nf == IF dot THEN RunLen(r2, DigitChars) ELSE 0
                    rest == From(r2, nf + 1)
                    ip == Upto(s, ni)
                    fp == Upto(r2, nf)
                    leadingZero == ~dot /\ ni > 1 /\ ip[1] = "0" /\ \E i \in 1..ni : ip[i] # "0"
                    glued == rest # <<>> /\ (IsWordChar(Head(rest)))
                IN  IF leadingZero \/ glued
                    THEN <<Token("bad", <<>>, NumV(0, 1))>>
                    ELSE <<Token("num", ip \o fp, NumV(IntOf(ip \o fp), Pow(10, nf)))>> \o Tokenize(rest)
             ELSE IF IsWordChar(c) THEN
                LET n == RunLen(s, WordChars)
                IN  <<Token("name", Upto(s, n), NumV(0, 1))>> \o Tokenize(From(s, n + 1))
             ELSE IF c \in {"'", "\""} THEN
                LET j == find(Tail(s), <<c>>)
                IN  IF j = 0 THEN <<Token("bad", <<>>, NumV(0, 1))>>
                    ELSE <<Token("str", SubSeq(s, 2, j), NumV(0, 1))>> \o Tokenize(From(s, j + 2))
             ELSE IF (c = "*" /\ c2 = "*") \/ (c = "/" /\ c2 = "/") THEN
                <<Token("op", <<c, c2>>, NumV(0, 1))>> \o Tokenize(From(s, 3))
             ELSE IF c \in {"+", "-", "*", "/"} THEN
                <<Token("op", <<c>>, NumV(0, 1))>> \o Tokenize(Tail(s))
             ELSE IF c = "(" THEN <<Token("lp", <<c>>, NumV(0, 1))>> \o Tokenize(Tail(s))
             ELSE IF c = ")" THEN <<Token("rp", <<c>>, NumV(0, 1))>> \o Tokenize(Tail(s))
             ELSE IF c = "." THEN <<Token("dot", <<c>>, NumV(0, 1))>> \o Tokenize(Tail(s))
             ELSE IF c = "," THEN <<Token("comma", <<c>>, NumV(0, 1))>> \o Tokenize(Tail(s))
             ELSE <<Token("bad", <<>>, NumV(0, 1))>>

\* the binary operators on two evaluated operands (left operand evaluated first)
BinOp(op, a, b) ==
    IF IsSyntax(a) \/ IsSyntax(b) THEN SyntaxV
    ELSE IF IsErr(a) THEN a
    ELSE IF IsErr(b) THEN b
    ELSE IF a.k \notin {"num", "real"} \/ b.k \notin {"num", "real"} THEN ErrV("TypeError")
    ELSE IF op \in {<<"/">>, <<"/", "/">>} /\ b.k = "num" /\ b.n = 0 THEN ErrV("ZeroDivisionError")
    ELSE IF a.k = "real" \/ b.k = "real" THEN RealV
    ELSE IF op = <<"+">> THEN NumV(a.n * b.d + b.n * a.d, a.d * b.d)
    ELSE IF op = <<"-">> THEN NumV(a.n * b.d - b.n * a.d, a.d * b.d)
    ELSE IF op = <<"*">> THEN NumV(a.n * b.n, a.d * b.d)
    ELSE IF op = <<"/">> THEN NumV(a.n * b.d, a.d * b.n)
    ELSE IF op = <<"/", "/">> THEN LET q == NumV(a.n * b.d, a.d * b.n) IN NumV(q.n \div q.d, 1)
    ELSE \* **
         IF b.d # 1 THEN RealV
         ELSE IF b.n >= 0 THEN NumV(Pow(a.n, b.n), Pow(a.d, b.n))
         ELSE IF a.n = 0 THEN ErrV("ZeroDivisionError")
         ELSE NumV(Pow(a.d, -b.n), Pow(a.n, -b.n))

UnaryOp(op, a) ==
    IF IsErr(a) THEN a
    ELSE IF a.k = "real" THEN RealV
    ELSE IF a.k # "num" THEN ErrV("TypeError")
    ELSE IF op = <<"-">> THEN NumV(-a.n, a.d) ELSE a

\* the host objects an expression can reach from the functions of the
\* evaluation context
Obj(name) == [ObjV EXCEPT !.f = name]
BuiltinFuncs == {<<"a","b","s">>, <<"r","o","u","n","d">>, <<"m","i","n">>, <<"m","a","x">>, <<"s","u","m">>, <<"p","o","w">>}
MathFuncs == {<<"s","q","r","t">>, <<"s","i","n">>, <<"c","o","s">>, <<"t","a","n">>, <<"l","o","g">>, <<"l","o","g","1","0">>, <<"e","x","p">>}
\* v.name: every object has __class__; a builtin function has __self__, the
\* module that defines it; the builtins module holds exit, quit and
\* __import__; what an imported module holds is up to the host
Attr(v, name) ==
    IF IsErr(v) THEN v
    ELSE IF name = <<"_","_","c","l","a","s","s","_","_">> THEN Obj("type")
    ELSE IF v.k = "func" THEN
        IF name = <<"_","_","s","e","l","f","_","_">> THEN Obj(IF v.f \in BuiltinFuncs THEN "builtins" ELSE "math")
        ELSE ErrV("AttributeError")
    ELSE IF v.k = "obj" /\ v.f = "builtins" THEN
        IF name \in {<<"e","x","i","t">>, <<"q","u","i","t">>} THEN Obj("Quitter")
        ELSE IF name = <<"_","_","i","m","p","o","r","t","_","_">> THEN Obj("__import__")
        ELSE IF name \in BuiltinFuncs THEN FuncV(name)
        ELSE ErrV("AttributeError")
    ELSE IF v.k = "obj" /\ v.f = "math" THEN
        IF name \in MathFuncs THEN FuncV(name)
        ELSE IF name \in {<<"p","i">>, <<"e">>} THEN RealV
        ELSE ErrV("AttributeError")
    ELSE IF v.k = "obj" /\ v.f \in {"module", <<>>} THEN ObjV
    ELSE ErrV("AttributeError")

FirstErr(args) ==
    IF \E i \in 1..Len(args) : IsErr(args[i])
    THEN args[CHOOSE i \in 1..Len(args) : IsErr(args[i]) /\ \A j \in 1..(i - 1) : ~IsErr(args[j])]
    ELSE ObjV

\* a call of one of the functions of MathTool's evaluation context
CallFunc(name, args) ==
    LET numeric == \A i \in 1..Len(args) : args[i].k \in {"num", "real"}
        x == args[1]
    IN  IF ~numeric THEN ErrV("TypeError")
        ELSE IF name = <<"s","q","r","t">> THEN
            IF Len(args) # 1 THEN ErrV("TypeError")
            ELSE IF x.k = "real" THEN RealV
            ELSE IF x.n < 0 THEN ErrV("ValueError")
            ELSE IF IsSquare(x.n) /\ IsSquare(x.d) THEN NumV(ISqrt(x.n), ISqrt(x.d))
            ELSE RealV
        ELSE IF name = <<"a","b","s">> THEN
            IF Len(args) # 1 THEN ErrV("TypeError")
            ELSE IF x.k = "real" THEN RealV ELSE NumV(Abs(x.n), x.d)
        ELSE IF name = <<"p","o","w">> THEN
            IF Len(args) # 2 THEN ErrV("TypeError") ELSE BinOp(<<"*", "*">>, args[1], args[2])
        ELSE IF name \in {<<"m","i","n">>, <<"m","a","x">>} THEN
            IF Len(args) < 2 THEN ErrV("TypeError")
            ELSE IF \E i \in 1..Len(args) : args[i].k = "real" THEN RealV
            ELSE LET Le(a, b) == a.n * b.d <= b.n * a.d
                     best == CHOOSE i \in 1..Len(args) : \A j \in 1..Len(args) :
                                IF name = <<"m","i","n">> THEN Le(args[i], args[j]) ELSE Le(args[j], args[i])
                 IN  args[best]
        ELSE IF name = <<"s","u","m">> THEN ErrV("TypeError")
        ELSE IF name \in {<<"l","o","g">>, <<"l","o","g","1","0">>} THEN
            IF Len(args) # 1 THEN ErrV("TypeError")
            ELSE IF x.k = "num" /\ x.n <= 0 THEN ErrV("ValueError")
            ELSE RealV
        ELSE \* round, sin, cos, tan, exp
            IF Len(args) # 1 THEN ErrV("TypeError") ELSE RealV

\* f(args): host is what a call of a host object does, which the expression
\* alone does not determine
Call(fv, args, host) ==
    IF IsErr(fv) THEN fv
    ELSE IF IsErr(FirstErr(args)) THEN FirstErr(args)
    ELSE IF fv.k = "func" THEN (IF Len(args) = 0 THEN ErrV("TypeError") ELSE CallFunc(fv.f, args))
    ELSE IF fv.k = "obj" /\ fv.f = "Quitter" THEN ErrV("SystemExit")
    ELSE IF fv.k = "obj" /\ fv.f = "__import__" THEN (IF args = <<>> THEN ErrV("TypeError") ELSE Obj("module"))
    ELSE IF fv.k = "obj" /\ fv.f = <<>> THEN (IF host = "value" THEN ObjV ELSE ErrV(host))
    ELSE ErrV("TypeError")

\* the value of a name in the evaluation context env
Lookup(env, name) ==
    IF name \in env.funcs THEN FuncV(name)
    ELSE IF name \in env.consts THEN RealV
    ELSE IF name \in env.objs THEN ObjV
    ELSE ErrV("NameError")

Tok(ts, p) == IF p <= Len(ts) THEN ts[p] ELSE EndTok
IsOp(t, ops) == t.t = "op" /\ t.s \in ops
Res(v, p) == [v |-> v, p |-> p]

\* the recursive-descent parser and evaluator of the fragment, one grammar
\* rule per case: c = [ts |-> tokens, env |-> context, host |-> outcome of
\* host calls], p the position in ts, acc the value to the left (for the
\* rule "args": the arguments so far)
RECURSIVE Parse(_, _, _, _)
Parse(rule, c, p, acc) ==
    LET t == Tok(c.ts, p)
        t2 == Tok(c.ts, p + 1)
    IN
    IF rule = "expr" THEN
        LET l == Parse("term", c, p, acc)
        IN  IF IsSyntax(l.v) THEN l ELSE Parse("expr_rest", c, l.p, l.v)
    ELSE IF rule = "expr_rest" THEN
        IF IsOp(t, {<<"+">>, <<"-">>})
        THEN LET r == Parse("term", c, p + 1, acc)
             IN  IF IsSyntax(r.v) THEN r ELSE Parse("expr_rest", c, r.p, BinOp(t.s, acc, r.v))
        ELSE Res(acc, p)
    ELSE IF rule = "term" THEN
        LET l == Parse("factor", c, p, acc)
        IN  IF IsSyntax(l.v) THEN l ELSE Parse("term_rest", c, l.p, l.v)
    ELSE IF rule = "term_rest" THEN
        IF IsOp(t, {<<"*">>, <<"/">>, <<"/", "/">>})
        THEN LET r == Parse("factor", c, p + 1, acc)
             IN  IF IsSyntax(r.v) THEN r ELSE Parse("term_rest", c, r.p, BinOp(t.s, acc, r.v))
        ELSE Res(acc, p)
    ELSE IF rule = "factor" THEN
        IF IsOp(t, {<<"+">>, <<"-">>})
        THEN LET r == Parse("factor", c, p + 1, acc)
             IN  IF IsSyntax(r.v) THEN r ELSE Res(UnaryOp(t.s, r.v), r.p)
        ELSE Parse("power", c, p, acc)
    ELSE IF rule = "power" THEN
        LET a == Parse("atom", c, p, acc)
            b == IF IsSyntax(a.v) THEN a ELSE Parse("trailers", c, a.p, a.v)
        IN  IF IsSyntax(b.v) THEN b
            ELSE IF IsOp(Tok(c.ts, b.p), {<<"*", "*">>})
            THEN LET x == Parse("factor", c, b.p + 1, acc)
                 IN  IF IsSyntax(x.v) THEN x ELSE Res(BinOp(<<"*", "*">>, b.v, x.v), x.p)
            ELSE b
    ELSE IF rule = "atom" THEN
        IF t.t = "num" THEN Res(t.v, p + 1)
        ELSE IF t.t = "name" THEN Res(Lookup(c.env, t.s), p + 1)
        ELSE IF t.t = "str" THEN Res(Obj("str"), p + 1)
        ELSE IF t.t = "lp" THEN
            IF t2.t = "rp" THEN Res(Obj("tuple"), p + 2)
            ELSE LET x == Parse("expr", c, p + 1, acc)
                 IN  IF IsSyntax(x.v) THEN x
                     ELSE IF Tok(c.ts, x.p).t = "rp" THEN Res(x.v, x.p + 1)
                     ELSE Res(SyntaxV, x.p)
        ELSE Res(SyntaxV, p)
    ELSE IF rule = "trailers" THEN
        IF t.t = "dot" THEN
            IF t2.t = "name" THEN Parse("trailers", c, p + 2, Attr(acc, t2.s))
            ELSE Res(SyntaxV, p)
        ELSE IF t.t = "lp" THEN
            LET a == Parse("args", c, p + 1, <<>>)
            IN  IF IsSyntax(a.v) THEN Res(SyntaxV, p)
                ELSE Parse("trailers", c, a.p, Call(acc, a.args, c.host))
        ELSE Res(acc, p)
    ELSE \* rule = "args": the arguments of a call up to the closing parenthesis
        IF t.t = "rp" THEN [v |-> NumV(0, 1), args |-> acc, p |-> p + 1]
        ELSE LET x == Parse("expr", c, p, NumV(0, 1))
             IN  IF IsSyntax(x.v) THEN [v |-> SyntaxV, args |-> acc, p |-> p]
                 ELSE IF Tok(c.ts, x.p).t = "comma" THEN Parse("args", c, x.p + 1, Append(acc, x.v))
                 ELSE IF Tok(c.ts, x.p).t = "rp"
                      THEN [v |-> NumV(0, 1), args |-> Append(acc, x.v), p |-> x.p + 1]
                 ELSE [v |-> SyntaxV, args |-> acc, p |-> p]

\* the value of a parse r of the tokens ts: all of them must be consumed
Evaluated(ts, r) ==
    IF IsSyntax(r.v) \/ r.p # Len(ts) + 1 THEN SyntaxV ELSE r.v
\* the value of a sequence of tokens
eval_tokens(ts, env, host) ==
    IF \E i \in 1..Len(ts) : ts[i].t = "bad" THEN SyntaxV
    ELSE Evaluated(ts, Parse("expr", [ts |-> ts, env |-> env, host |-> host], 1, NumV(0, 1)))
\* eval(expression, globals): the value, or the exception raised
eval(expression, env, host) == eval_tokens(Tokenize(expression), env, host)

(***************************************************************************)
(* Regular expressions of the routers                                      *)
(***************************************************************************)
\* re.findall(r'\d+\.?\d*', s)
RECURSIVE findall_numbers(_)
findall_numbers(s) ==
    IF \A i \in 1..Len(s) : ~IsDigit(s[i]) THEN <<>>
    ELSE LET b == CHOOSE i \in 1..Len(s) : IsDigit(s[i]) /\ \A j \in 1..(i - 1) : ~IsDigit(s[j])
             t == From(s, b)
             ni == RunLen(t, DigitChars)
             r1 == From(t, ni + 1)
             dot == r1 # <<>> /\ Head(r1) = "."
             nf == IF dot THEN RunLen(Tail(r1), DigitChars) ELSE 0
             n == ni + (IF dot THEN 1 + nf ELSE 0)
         IN  <<Upto(t, n)>> \o findall_numbers(From(t, n + 1))

\* \b at position i: between s[i-1] and s[i] exactly one is a word character
IsBoundary(s, i) ==
    LET before == i > 1 /\ i - 1 <= Len(s) /\ IsWordChar(s[i - 1])
        after == i >= 1 /\ i <= Len(s) /\ IsWordChar(s[i])
    IN  before # after

\* the character class [\w\-_./]
PathChars == WordChars \cup {"-", ".", "/"}
SetMax(S) == CHOOSE x \in S : \A y \in S : y <= x

\* r'\b[\w\-_./]+\.\w+\b' matched at position i: the length matched, 0 for no match
FileMatchAt(s, i) ==
    LET t == From(s, i)
        R == Upto(t, RunLen(t, PathChars))
        dots == {j \in 2..(Len(R) - 1) : R[j] = "." /\ IsWordChar(R[j + 1])}
    IN  IF ~IsBoundary(s, i) \/ dots = {} THEN 0
        ELSE LET j == SetMax(dots) IN j + RunLen(From(R, j + 1), WordChars)

\* r'\b[\w\-_./]+/[\w\-_./]*\b' matched at position i: the length matched, 0 for no match
PathMatchAt(s, i) ==
    LET t == From(s, i)
        R == Upto(t, RunLen(t, PathChars))
        ends(j) == {x \in j..Len(R) : IsBoundary(s, i + x)}
        slashes == {j \in 2..Len(R) : R[j] = "/" /\ ends(j) # {}}
    IN  IF ~IsBoundary(s, i) \/ slashes = {} THEN 0
        ELSE SetMax(ends(SetMax(slashes)))

\* re.search(pattern, s).group(0) for a pattern given by its match length at a position
search_with(s, MatchAt(_, _)) ==
    IF \A i \in 1..Len(s) : MatchAt(s, i) = 0 THEN None
    ELSE LET i == CHOOSE x \in 1..Len(s) : MatchAt(s, x) > 0 /\ \A y \in 1..(x - 1) : MatchAt(s, y) = 0
         IN  Some(SubSeq(s, i, i + MatchAt(s, i) - 1))

(***************************************************************************)
(* What a tool or an agent hands back: the formatted text is modelled by   *)
(* the kind of text, the value or string interpolated into it and, for a   *)
(* file tool, the resolved path whose contents or listing it holds.        *)
(***************************************************************************)
NoVal == [k |-> "none", n |-> 0, d |-> 1, f |-> <<>>, e |-> ""]
Resp(kind, text) == [kind |-> kind, text |-> text, val |-> NoVal, path |-> <<>>, parts |-> <<>>]
RespV(kind, text, val) == [Resp(kind, text) EXCEPT !.val = val]
RespP(kind, text, path) == [Resp(kind, text) EXCEPT !.path = path]
NoResp == Resp("", <<>>)

\* the outcome of running a piece of code: a returned value or a raised exception
Ret(r) == [exc |-> "", ret |-> r]
Raise(exc) == [exc |-> exc, ret |-> NoResp]

(***************************************************************************)
(* The file system the file tools look at                                  *)
(***************************************************************************)
MiB == 1024 * 1024
\* Path.cwd(), which FileManagerAgent keeps as current_directory
Cwd == <<<<"s","r","v">>, <<"a","p","p">>>>
File(path, size, utf8, content) ==
    [path |-> path, kind |-> "file", size |-> size, utf8 |-> utf8, content |-> content]
Dir(path) == [path |-> path, kind |-> "dir", size |-> 0, utf8 |-> TRUE, content |-> ""]
FS == {
    Dir(<<>>), Dir(<<<<"e","t","c">>>>), Dir(<<<<"s","r","v">>>>), Dir(Cwd),
    Dir(Cwd \o <<<<"b">>>>),
    File(<<<<"e","t","c">>, <<"p","a","s","s","w","d">>>>, 1200, TRUE, "passwd contents"),
    File(Cwd \o <<<<"R","E","A","D","M","E",".","m","d">>>>, 300, TRUE, "readme contents"),
    File(Cwd \o <<<<"a",".","t","x","t">>>>, 12, TRUE, "a contents"),
    File(Cwd \o <<<<"d","a","t","a",".","b","i","n">>>>, 64, FALSE, "binary contents"),
    File(Cwd \o <<<<"b","i","g",".","l","o","g">>>>, 2 * MiB, TRUE, "log contents") }

\* Path(p).resolve(): the absolute path without "." and ".." components
RECURSIVE Normalize(_, _)
Normalize(acc, comps) ==
    IF comps = <<>> THEN acc
    ELSE LET c == Head(comps)
         IN  IF c = <<>> \/ c = <<".">> THEN Normalize(acc, Tail(comps))
             ELSE IF c = <<".", ".">>
                  THEN Normalize(IF acc = <<>> THEN acc ELSE Upto(acc, Len(acc) - 1), Tail(comps))
             ELSE Normalize(Append(acc, c), Tail(comps))
resolve(p) ==
    IF p # <<>> /\ Head(p) = "/" THEN Normalize(<<>>, split(p, <<"/">>))
    ELSE Normalize(Cwd, split(p, <<"/">>))

exists(ap) == \E f \in FS : f.path = ap
Entry(ap) == CHOOSE f \in FS : f.path = ap
is_file(ap) == exists(ap) /\ Entry(ap).kind = "file"
is_dir(ap) == exists(ap) /\ Entry(ap).kind = "dir"
\* ap lies in the tree below root
Inside(root, ap) == Len(ap) >= Len(root) /\ Upto(ap, Len(root)) = root

(***************************************************************************)
(* basic_agent/agent_with_tools.py: the tools                              *)
(***************************************************************************)
\* the names eval(expression) can see in agent_with_tools.py: the builtins
\* and the imports of the module, all of them host objects
ModuleGlobals == [funcs |-> {}, consts |-> {},
                  objs |-> {<<"_","_","i","m","p","o","r","t","_","_">>, <<"o","s">>, <<"s","y","s">>, <<"j","s","o","n">>, <<"m","a","t","h">>, <<"r","e","q","u","e","s","t","s">>}]
safe_chars == DigitChars \cup {"+", "-", "*", "/", ".", "(", ")", " "}

\* the try block of CalculatorTool.calculate around the result of eval
calculate_outcome(expression, result) ==
    IF ~IsErr(result) THEN Ret(RespV("calc_result", expression, result))
    ELSE IF result.e = "ZeroDivisionError" THEN Ret(Resp("calc_division_by_zero", <<>>))
    ELSE IF IsException(result.e) THEN Ret(RespV("calc_error", <<>>, result))
    ELSE Raise(result.e)
\* CalculatorTool.calculate
CalculatorTool_calculate(expression, host) ==
    IF \E i \in 1..Len(expression) : expression[i] \notin safe_chars
    THEN Ret(Resp("calc_invalid_characters", <<>>))
    ELSE calculate_outcome(expression, eval(expression, ModuleGlobals, host))

\* float(x) of a string of the shape \d+\.?\d*
float(x) ==
    LET i == find(x, <<".">>)
        ip == IF i = 0 THEN x ELSE Upto(x, i - 1)
        fp == IF i = 0 THEN <<>> ELSE From(x, i + 1)
    IN  NumV(IntOf(ip \o fp), Pow(10, Len(fp)))

\* CalculatorTool.advanced_math for the operations the router asks for
CalculatorTool_advanced_math(operation, args) ==
    IF operation = "sqrt" THEN
        IF Len(args) # 1 THEN Ret(Resp("math_arity_error", <<>>))
        ELSE Ret(RespV("math_sqrt", args[1], CallFunc(<<"s","q","r","t">>, <<float(args[1])>>)))
    ELSE IF operation = "power" THEN
        IF Len(args) # 2 THEN Ret(Resp("math_arity_error", <<>>))
        ELSE Ret(RespV("math_power", args[1] \o <<"^">> \o args[2],
                       BinOp(<<"*", "*">>, float(args[1]), float(args[2]))))
    ELSE Ret(Resp("math_unknown_operation", <<>>))

\* WebSearchTool.search
AWT_WebSearchTool_search(query) == Ret(Resp("web_search_results", query))
\* WeatherTool.get_weather
WeatherTool_get_weather(location) == Ret(Resp("weather_report", location))

\* FileOperationsTool.list_files
AWT_FileOperationsTool_list_files(directory) ==
    LET path == resolve(directory)
    IN  IF ~exists(path) THEN Ret(Resp("list_directory_not_found", directory))
        ELSE IF ~is_dir(path) THEN Ret(Resp("list_error", directory))
        ELSE Ret(RespP("listing", directory, path))

\* FileOperationsTool.read_file
AWT_FileOperationsTool_read_file(filepath) ==
    LET path == resolve(filepath)
    IN  IF ~exists(path) THEN Ret(Resp("read_file_not_found", filepath))
        ELSE IF ~is_file(path) THEN Ret(Resp("read_not_a_file", filepath))
        ELSE IF ~Entry(path).utf8 THEN Ret(Resp("read_binary_or_unsupported", filepath))
        ELSE Ret(RespP("file_content", filepath, path))

(***************************************************************************)
(* advanced_agent/file_manager_agent.py: the tools                         *)
(***************************************************************************)
\* FileOperationsTool.list_directory
FM_FileOperationsTool_list_directory(path, detailed, recursive) ==
    LET target_path == resolve(path)
    IN  IF ~exists(target_path) THEN Ret(Resp("list_path_does_not_exist", path))
        ELSE IF ~is_dir(target_path) THEN Ret(Resp("list_not_a_directory", path))
        ELSE Ret(RespP("listing", path, target_path))

\* FileOperationsTool.read_file: a file that is not UTF-8 is decoded as
\* latin-1, which decodes every byte sequence
FM_FileOperationsTool_read_file(filepath, max_lines) ==
    LET file_path == resolve(filepath)
    IN  IF ~exists(file_path) THEN Ret(Resp("read_file_does_not_exist", filepath))
        ELSE IF ~is_file(file_path) THEN Ret(Resp("read_not_a_file", filepath))
        ELSE IF Entry(file_path).size > 1024 * 1024 THEN Ret(Resp("read_file_too_large", filepath))
        ELSE Ret(RespP("file_content", filepath, file_path))

\* FileOperationsTool.file_info
FM_FileOperationsTool_file_info(filepath) ==
    LET file_path == resolve(filepath)
    IN  IF ~exists(file_path) THEN Ret(Resp("info_path_does_not_exist", filepath))
        ELSE Ret(RespP("file_info", filepath, file_path))

\* FileOperationsTool.search_files: rglob raises ValueError on an empty pattern
FM_FileOperationsTool_search_files(directory, pattern, content_search) ==
    LET search_path == resolve(directory)
    IN  IF ~exists(search_path) THEN Ret(Resp("search_directory_does_not_exist", directory))
        ELSE IF ~is_dir(search_path) THEN Ret(Resp("search_not_a_directory", directory))
        ELSE IF pattern = <<>> THEN Ret(Resp("search_error", directory))
        ELSE Ret(RespP("search_results", pattern, search_path))

(***************************************************************************)
(* What a router hands back to chat(): the rule whose branch was entered   *)
(* ("none" when the function returns None), the outcome of the branch,     *)
(* the tool it invoked with its argument, and the entries it appended to   *)
(* the operation or research history of the agent.                         *)
(***************************************************************************)
Routed(rule, tool, arg, out, log) ==
    [rule |-> rule, tool |-> tool, arg |-> arg, out |-> out, log |-> log]
NoRule == Routed("none", "", <<>>, Ret(NoResp), <<>>)

\* ' '.join(words)
RECURSIVE join(_)
join(words) ==
    IF words = <<>> THEN <<>>
    ELSE IF Len(words) = 1 THEN words[1]
    ELSE words[1] \o <<" ">> \o join(Tail(words))

\* the first position i of words with words[i].lower() in keys that has a successor, or 0
FirstKeyWord(words, keys) ==
    LET hit(i) == lower(words[i]) \in keys /\ i + 1 <= Len(words)
    IN  IF \E i \in 1..Len(words) : hit(i)
        THEN CHOOSE i \in 1..Len(words) : hit(i) /\ \A j \in 1..(i - 1) : ~hit(j)
        ELSE 0

(***************************************************************************)
(* basic_agent/agent_with_tools.py: AgentWithTools                         *)
(***************************************************************************)
AWT_calculator_words == {<<"c","a","l","c","u","l","a","t","e">>, <<"c","o","m","p","u","t","e">>, <<"m","a","t","h">>, <<"s","o","l","v","e">>}
AWT_search_words == {<<"s","e","a","r","c","h">>, <<"f","i","n","d">>, <<"l","o","o","k","u","p">>, <<"g","o","o","g","l","e">>}
AWT_weather_words == {<<"w","e","a","t","h","e","r">>, <<"t","e","m","p","e","r","a","t","u","r","e">>, <<"f","o","r","e","c","a","s","t">>}
AWT_list_words == {<<"l","i","s","t"," ","f","i","l","e","s">>, <<"s","h","o","w"," ","f","i","l","e","s">>, <<"d","i","r","e","c","t","o","r","y">>}
AWT_read_words == {<<"r","e","a","d"," ","f","i","l","e">>, <<"s","h","o","w"," ","f","i","l","e">>, <<"o","p","e","n"," ","f","i","l","e">>}
AWT_operators == {"+", "-", "*", "/", "(", ")"}
\* the character class [\d+\-*/().\s]
math_pattern == DigitChars \cup {"+", "-", "*", "/", "(", ")", "."} \cup SpaceChars

\* the calculator branch of _check_and_use_tools.  "import re" is a statement
\* of the operator branch only, which makes re a local name of the function
\* that is bound only once that branch has run
AWT_calculator_branch(user_input, host) ==
    LET user_lower == lower(user_input)
        has_operator == \E c \in AWT_operators : contains(user_input, <<c>>)
        re_bound == has_operator
        matches == findall_runs(user_input, math_pattern)
        expression == strip(max_by_len(matches))
        numbers == findall_numbers(user_input)
        help == Routed("calculator", "", <<>>, Ret(Resp("calculator_help", <<>>)), <<>>)
    IN  IF has_operator /\ matches # <<>>
        THEN Routed("calculator", "calculate", expression,
                    CalculatorTool_calculate(expression, host), <<>>)
        ELSE IF contains(user_lower, <<"s","q","r","t">>) \/ contains(user_lower, <<"s","q","u","a","r","e"," ","r","o","o","t">>) THEN
            IF ~re_bound THEN Routed("calculator", "", <<>>, Raise("UnboundLocalError"), <<>>)
            ELSE IF numbers # <<>>
                 THEN Routed("calculator", "advanced_math", numbers[1],
                             CalculatorTool_advanced_math("sqrt", <<numbers[1]>>), <<>>)
                 ELSE help
        ELSE IF contains(user_lower, <<"p","o","w","e","r">>) \/ contains(user_input, <<"^">>) THEN
            IF ~re_bound THEN Routed("calculator", "", <<>>, Raise("UnboundLocalError"), <<>>)
            ELSE IF Len(numbers) >= 2
                 THEN Routed("calculator", "advanced_math", numbers[1],
                             CalculatorTool_advanced_math("power", <<numbers[1], numbers[2]>>), <<>>)
                 ELSE help
        ELSE help

AWT_search_branch(user_input) ==
    LET search_terms == strip(replace(replace(replace(replace(user_input,
                            <<"s","e","a","r","c","h"," ","f","o","r">>, <<>>), <<"f","i","n","d">>, <<>>), <<"l","o","o","k","u","p">>, <<>>), <<"g","o","o","g","l","e">>, <<>>))
    IN  IF search_terms # <<>>
        THEN Routed("web_search", "search", search_terms, AWT_WebSearchTool_search(search_terms), <<>>)
        ELSE Routed("web_search", "", <<>>, Ret(Resp("search_prompt", <<>>)), <<>>)

AWT_weather_branch(user_input) ==
    LET location_words == split_ws(user_input)
        i == FirstKeyWord(location_words, {<<"i","n">>, <<"f","o","r">>, <<"a","t">>})
        location == IF i = 0 THEN <<"y","o","u","r"," ","l","o","c","a","t","i","o","n">> ELSE join(From(location_words, i + 1))
    IN  Routed("weather", "get_weather", location, WeatherTool_get_weather(location), <<>>)

AWT_list_branch(user_input) ==
    LET parts == split(user_input, <<"i","n">>)
        directory == IF contains(lower(user_input), <<"i","n">>) /\ Len(parts) > 1
                     THEN strip(parts[Len(parts)]) ELSE <<".">>
    IN  Routed("list_files", "list_files", directory, AWT_FileOperationsTool_list_files(directory), <<>>)

AWT_read_branch(user_input) ==
    LET words == split_ws(user_input)
        i == FirstKeyWord(words, {<<"f","i","l","e">>, <<"r","e","a","d">>, <<"s","h","o","w">>, <<"o","p","e","n">>})
    IN  IF i # 0 /\ words[i + 1] # <<>>
        THEN Routed("read_file", "read_file", words[i + 1],
                    AWT_FileOperationsTool_read_file(words[i + 1]), <<>>)
        ELSE Routed("read_file", "", <<>>, Ret(Resp("read_file_prompt", <<>>)), <<>>)

\* _check_and_use_tools with the weather rule declared before the web search
\* rule: the order of the rules is what first-match routing depends on
AgentWithTools_check_weather_first(self, user_input, host) ==
    LET user_lower == lower(user_input)
    IN  IF contains_any(user_lower, AWT_calculator_words) THEN AWT_calculator_branch(user_input, host)
        ELSE IF contains_any(user_lower, AWT_weather_words) THEN AWT_weather_branch(user_input)
        ELSE IF contains_any(user_lower, AWT_search_words) THEN AWT_search_branch(user_input)
        ELSE IF contains_any(user_lower, AWT_list_words) THEN AWT_list_branch(user_input)
        ELSE IF contains_any(user_lower, AWT_read_words) THEN AWT_read_branch(user_input)
        ELSE NoRule

\* AgentWithTools._check_and_use_tools
AgentWithTools_check_and_use_tools(self, user_input, host) ==
    LET user_lower == lower(user_input)
    IN  IF contains_any(user_lower, AWT_calculator_words) THEN AWT_calculator_branch(user_input, host)
        ELSE IF contains_any(user_lower, AWT_search_words) THEN AWT_search_branch(user_input)
        ELSE IF contains_any(user_lower, AWT_weather_words) THEN AWT_weather_branch(user_input)
        ELSE IF contains_any(user_lower, AWT_list_words) THEN AWT_list_branch(user_input)
        ELSE IF contains_any(user_lower, AWT_read_words) THEN AWT_read_branch(user_input)
        ELSE NoRule

\* the keyword chain of _generate_conversational_response shared by
\* AgentWithTools and CustomToolAgent
Tools_generate_conversational_response(user_input) ==
    LET user_lower == lower(user_input)
    IN  IF contains_any(user_lower, {<<"h","e","l","l","o">>, <<"h","i">>, <<"h","e","y">>}) THEN Resp("canned_greeting", <<>>)
        ELSE IF contains_any(user_lower, {<<"w","h","a","t"," ","c","a","n"," ","y","o","u"," ","d","o">>, <<"c","a","p","a","b","i","l","i","t","i","e","s">>, <<"h","e","l","p">>, <<"t","o","o","l","s">>})
             THEN Resp("canned_capabilities", <<>>)
        ELSE IF contains_any(user_lower, {<<"g","o","o","d","b","y","e">>, <<"b","y","e">>, <<"t","h","a","n","k","s">>}) THEN Resp("canned_farewell", <<>>)
        ELSE Resp("canned_default", user_input)

\* the keyword chain of _generate_conversational_response shared by
\* WebResearchAgent and FileManagerAgent
Advanced_generate_conversational_response(user_input) ==
    LET user_lower == lower(user_input)
    IN  IF contains_any(user_lower, {<<"h","e","l","l","o">>, <<"h","i">>, <<"h","e","y">>}) THEN Resp("canned_greeting", <<>>)
        ELSE IF contains_any(user_lower, {<<"w","h","a","t"," ","c","a","n"," ","y","o","u"," ","d","o">>, <<"c","a","p","a","b","i","l","i","t","i","e","s">>, <<"h","e","l","p">>})
             THEN Resp("canned_capabilities", <<>>)
        ELSE IF contains_any(user_lower, {<<"g","o","o","d","b","y","e">>, <<"b","y","e">>, <<"t","h","a","n","k","s">>}) THEN Resp("canned_farewell", <<>>)
        ELSE Resp("canned_default", user_input)

\* SimpleAgent._generate_mock_response
SimpleAgent_generate_mock_response(user_input) ==
    LET user_lower == lower(user_input)
    IN  IF contains_any(user_lower, {<<"h","e","l","l","o">>, <<"h","i">>, <<"h","e","y">>, <<"g","r","e","e","t","i","n","g","s">>})
             THEN Resp("canned_greeting", <<>>)
        ELSE IF contains_any(user_lower, {<<"h","o","w"," ","a","r","e"," ","y","o","u">>, <<"h","o","w"," ","d","o"," ","y","o","u"," ","d","o">>, <<"w","h","a","t","'","s"," ","u","p">>})
             THEN Resp("canned_how_are_you", <<>>)
        ELSE IF contains_any(user_lower, {<<"w","h","a","t"," ","c","a","n"," ","y","o","u"," ","d","o">>, <<"c","a","p","a","b","i","l","i","t","i","e","s">>, <<"h","e","l","p">>, <<"a","b","i","l","i","t","i","e","s">>})
             THEN Resp("canned_capabilities", <<>>)
        ELSE IF contains_any(user_lower, {<<"g","o","o","d","b","y","e">>, <<"b","y","e">>, <<"s","e","e"," ","y","o","u">>, <<"f","a","r","e","w","e","l","l">>})
             THEN Resp("canned_farewell", <<>>)
        ELSE IF contains_any(user_lower, {<<"s","t","r","a","n","d","s">>, <<"s","d","k">>, <<"f","r","a","m","e","w","o","r","k">>})
             THEN Resp("canned_strands", <<>>)
        ELSE IF contains_any(user_lower, {<<"w","e","a","t","h","e","r">>, <<"t","e","m","p","e","r","a","t","u","r","e">>, <<"f","o","r","e","c","a","s","t">>})
             THEN Resp("canned_weather", <<>>)
        ELSE IF contains_any(user_lower, {<<"c","a","l","c","u","l","a","t","e">>, <<"m","a","t","h">>, <<"c","o","m","p","u","t","e">>, <<"n","u","m","b","e","r">>})
             THEN Resp("canned_calculate", <<>>)
        ELSE Resp("canned_default", user_input)

(***************************************************************************)
(* basic_agent/custom_tool_agent.py: CustomToolAgent                       *)
(***************************************************************************)
\* TextAnalyzerTool.analyze_text: the vocabulary diversity divides by the
\* word count, and the ZeroDivisionError is caught by the tool
TextAnalyzerTool_analyze_text(text) ==
    LET char_count == Len(text)
        word_count == Len(split_ws(text))
    IN  IF word_count = 0 THEN Ret(Resp("text_analysis_error", <<>>))
        ELSE Ret([Resp("text_analysis", text) EXCEPT
                    !.val = NumV(word_count, 1), !.parts = <<char_count>>])
\* TextAnalyzerTool.extract_keywords
TextAnalyzerTool_extract_keywords(text) == Ret(Resp("keywords", text))
\* DataProcessorTool.process_csv_data
DataProcessorTool_process_csv_data(data) ==
    IF Len(split(strip(data), <<"\n">>)) < 2 THEN Ret(Resp("csv_need_header_and_row", <<>>))
    ELSE Ret(Resp("csv_analysis", data))
\* DataProcessorTool.generate_summary_stats
DataProcessorTool_generate_summary_stats(numbers) ==
    IF numbers = <<>> THEN Ret(Resp("stats_no_numbers", <<>>))
    ELSE Ret(RespV("summary_stats", <<>>, NumV(Len(numbers), 1)))
\* CodeAnalyzerTool.analyze_code
CodeAnalyzerTool_analyze_code(code) == Ret(Resp("code_analysis", code))
\* HashGeneratorTool.generate_hashes
HashGeneratorTool_generate_hashes(text) == Ret(Resp("hashes", text))

\* re.findall(r'-?\d+\.?\d*', s)
RECURSIVE findall_signed_numbers(_)
findall_signed_numbers(s) ==
    IF \A i \in 1..Len(s) : ~IsDigit(s[i]) THEN <<>>
    ELSE LET b == CHOOSE i \in 1..Len(s) : IsDigit(s[i]) /\ \A j \in 1..(i - 1) : ~IsDigit(s[j])
             sign == IF b > 1 /\ s[b - 1] = "-" THEN <<"-">> ELSE <<>>
             t == From(s, b)
             ni == RunLen(t, DigitChars)
             r1 == From(t, ni + 1)
             dot == r1 # <<>> /\ Head(r1) = "."
             nf == IF dot THEN RunLen(Tail(r1), DigitChars) ELSE 0
             n == ni + (IF dot THEN 1 + nf ELSE 0)
         IN  <<sign \o Upto(t, n)>> \o findall_signed_numbers(From(t, n + 1))

\* the code-block pattern (a fence, an optional "python" or "py", a newline,
\* the shortest body, a newline, a fence) matched at position i: the body
\* (the backquote character is written "backquote")
fence == <<"backquote", "backquote", "backquote">>
CodeBlockAt(s, i) ==
    IF ~StartsAt(s, fence, i) THEN None
    ELSE LET a == From(s, i + 3)
             heads == <<<<"p","y","t","h","o","n">> \o <<"\n">>, <<"p","y">> \o <<"\n">>, <<"\n">>>>
             ok(h) == StartsAt(a, heads[h], 1) /\ contains(From(a, Len(heads[h]) + 1), <<"\n">> \o fence)
         IN  IF \A h \in 1..3 : ~ok(h) THEN None
             ELSE LET h == CHOOSE x \in 1..3 : ok(x) /\ \A y \in 1..(x - 1) : ~ok(y)
                      body == From(a, Len(heads[h]) + 1)
                  IN  Some(Upto(body, find(body, <<"\n">> \o fence) - 1))
search_code_block(s) ==
    IF \A i \in 1..Len(s) : ~CodeBlockAt(s, i).some THEN None
    ELSE CodeBlockAt(s, CHOOSE i \in 1..Len(s) :
                            CodeBlockAt(s, i).some /\ \A j \in 1..(i - 1) : ~CodeBlockAt(s, j).some)

CTA_text_words == {<<"a","n","a","l","y","z","e"," ","t","e","x","t">>, <<"t","e","x","t"," ","a","n","a","l","y","s","i","s">>, <<"a","n","a","l","y","z","e"," ","t","h","i","s"," ","t","e","x","t">>}
CTA_keyword_words == {<<"e","x","t","r","a","c","t"," ","k","e","y","w","o","r","d","s">>, <<"f","i","n","d"," ","k","e","y","w","o","r","d","s">>, <<"k","e","y","w","o","r","d","s"," ","f","r","o","m">>}
CTA_csv_words == {<<"p","r","o","c","e","s","s"," ","c","s","v">>, <<"a","n","a","l","y","z","e"," ","c","s","v">>, <<"c","s","v"," ","d","a","t","a">>}
CTA_stats_words == {<<"s","t","a","t","i","s","t","i","c","s"," ","f","o","r">>, <<"s","t","a","t","s"," ","f","o","r">>, <<"s","u","m","m","a","r","i","z","e"," ","n","u","m","b","e","r","s">>}
CTA_code_words == {<<"a","n","a","l","y","z","e"," ","c","o","d","e">>, <<"c","o","d","e"," ","a","n","a","l","y","s","i","s">>, <<"r","e","v","i","e","w"," ","c","o","d","e">>}
CTA_hash_words == {<<"g","e","n","e","r","a","t","e"," ","h","a","s","h">>, <<"h","a","s","h"," ","o","f">>, <<"c","h","e","c","k","s","u","m">>}

\* the branches "text in quotes, else text after a marker" of the text
\* analysis and hash rules: the marker is looked for in the lower-cased
\* input and the original input is split at it
CTA_quoted_or_marker(rule, tool, Tool(_), marker, prompt, user_input) ==
    LET text_match == search_quoted(user_input)
        pieces == split1(user_input, marker)
    IN  IF contains(user_input, <<"\"">>) THEN
            IF text_match.some
            THEN Routed(rule, tool, text_match.s, Tool(text_match.s), <<>>)
            ELSE Routed(rule, "", <<>>, Ret(Resp(prompt, <<>>)), <<>>)
        ELSE IF contains(lower(user_input), marker) THEN
            IF Len(pieces) < 2 THEN Routed(rule, "", <<>>, Raise("IndexError"), <<>>)
            ELSE Routed(rule, tool, strip(pieces[2]), Tool(strip(pieces[2])), <<>>)
        ELSE Routed(rule, "", <<>>, Ret(Resp(prompt, <<>>)), <<>>)

CTA_keyword_branch(user_input) ==
    LET text_match == search_quoted(user_input)
    IN  IF contains(user_input, <<"\"">>) /\ text_match.some
        THEN Routed("keywords", "extract_keywords", text_match.s,
                    TextAnalyzerTool_extract_keywords(text_match.s), <<>>)
        ELSE Routed("keywords", "", <<>>, Ret(Resp("keywords_prompt", <<>>)), <<>>)

CTA_csv_branch(user_input) ==
    LET lines == split(user_input, <<"\n">>)
        csv_lines == SelectSeq(lines, LAMBDA line : contains(line, <<",">>))
        RECURSIVE join_lines(_)
        join_lines(ls) == IF Len(ls) = 1 THEN ls[1] ELSE ls[1] \o <<"\n">> \o join_lines(Tail(ls))
    IN  IF Len(csv_lines) >= 2
        THEN Routed("csv", "process_csv_data", join_lines(csv_lines),
                    DataProcessorTool_process_csv_data(join_lines(csv_lines)), <<>>)
        ELSE Routed("csv", "", <<>>, Ret(Resp("csv_prompt", <<>>)), <<>>)

CTA_stats_branch(user_input) ==
    LET numbers == findall_signed_numbers(user_input)
    IN  IF numbers # <<>>
        THEN Routed("statistics", "generate_summary_stats", user_input,
                    DataProcessorTool_generate_summary_stats(numbers), <<>>)
        ELSE Routed("statistics", "", <<>>, Ret(Resp("stats_prompt", <<>>)), <<>>)

CTA_code_branch(user_input) ==
    LET code_match == search_code_block(user_input)
        prompt == Routed("code", "", <<>>, Ret(Resp("code_prompt", <<>>)), <<>>)
    IN  IF contains(user_input, fence) THEN
            IF code_match.some
            THEN Routed("code", "analyze_code", code_match.s, CodeAnalyzerTool_analyze_code(code_match.s), <<>>)
            ELSE prompt
        ELSE IF contains(user_input, <<"d","e","f"," ">>) \/ contains(user_input, <<"c","l","a","s","s"," ">>)
            THEN Routed("code", "analyze_code", user_input, CodeAnalyzerTool_analyze_code(user_input), <<>>)
        ELSE prompt

\* _check_and_use_custom_tools as it would be if the text-analysis rule
\* handed the whole utterance to the analyzer
CustomToolAgent_check_whole_utterance(self, user_input) ==
    LET user_lower == lower(user_input)
    IN  IF contains_any(user_lower, CTA_text_words)
        THEN Routed("text_analysis", "analyze_text", user_input, TextAnalyzerTool_analyze_text(user_input), <<>>)
        ELSE IF contains_any(user_lower, CTA_keyword_words) THEN CTA_keyword_branch(user_input)
        ELSE IF contains_any(user_lower, CTA_csv_words) THEN CTA_csv_branch(user_input)
        ELSE IF contains_any(user_lower, CTA_stats_words) THEN CTA_stats_branch(user_input)
        ELSE IF contains_any(user_lower, CTA_code_words) THEN CTA_code_branch(user_input)
        ELSE IF contains_any(user_lower, CTA_hash_words)
        THEN CTA_quoted_or_marker("hash", "generate_hashes", HashGeneratorTool_generate_hashes,
                                  <<"h","a","s","h",":">>, "hash_prompt", user_input)
        ELSE NoRule

\* CustomToolAgent._check_and_use_custom_tools
CustomToolAgent_check_and_use_custom_tools(self, user_input) ==
    LET user_lower == lower(user_input)
    IN  IF contains_any(user_lower, CTA_text_words)
        THEN CTA_quoted_or_marker("text_analysis", "analyze_text", TextAnalyzerTool_analyze_text,
                                  <<"a","n","a","l","y","z","e",":">>, "text_analysis_prompt", user_input)
        ELSE IF contains_any(user_lower, CTA_keyword_words) THEN CTA_keyword_branch(user_input)
        ELSE IF contains_any(user_lower, CTA_csv_words) THEN CTA_csv_branch(user_input)
        ELSE IF contains_any(user_lower, CTA_stats_words) THEN CTA_stats_branch(user_input)
        ELSE IF contains_any(user_lower, CTA_code_words) THEN CTA_code_branch(user_input)
        ELSE IF contains_any(user_lower, CTA_hash_words)
        THEN CTA_quoted_or_marker("hash", "generate_hashes", HashGeneratorTool_generate_hashes,
                                  <<"h","a","s","h",":">>, "hash_prompt", user_input)
        ELSE NoRule

(***************************************************************************)
(* advanced_agent/web_research_agent.py: WebResearchAgent                  *)
(***************************************************************************)
Entry2(operation, arg) == [operation |-> operation, arg |-> arg]

RECURSIVE remove_all(_, _)
\* user_lower.replace(phrase, '') for each phrase of the list in order
remove_all(s, phrases) ==
    IF phrases = <<>> THEN s ELSE remove_all(replace(s, Head(phrases), <<>>), Tail(phrases))

\* WebResearchAgent._extract_research_topic
WebResearchAgent_extract_research_topic(user_input) ==
    LET topic == strip(remove_all(lower(user_input),
                    <<<<"r","e","s","e","a","r","c","h">>, <<"f","i","n","d"," ","i","n","f","o","r","m","a","t","i","o","n"," ","a","b","o","u","t">>, <<"s","e","a","r","c","h"," ","f","o","r">>, <<"l","o","o","k"," ","u","p">>, <<"t","e","l","l"," ","m","e"," ","a","b","o","u","t">>>>))
    IN  IF Len(topic) > 2 THEN Some(topic) ELSE None

\* WebResearchAgent._extract_comparison_topics
WebResearchAgent_extract_comparison_topics(user_input) ==
    LET user_lower == lower(user_input)
        separators == <<<<" ","v","s"," ">>, <<" ","v","e","r","s","u","s"," ">>, <<" ","a","n","d"," ">>, <<" ","o","r"," ">>>>
        present(i) == contains(user_lower, separators[i])
    IN  IF \A i \in 1..4 : ~present(i) THEN <<>>
        ELSE LET i == CHOOSE x \in 1..4 : present(x) /\ \A y \in 1..(x - 1) : ~present(y)
                 parts == split(user_lower, separators[i])
             IN  <<strip(parts[1]), strip(parts[2])>>

WRA_research_words == {<<"r","e","s","e","a","r","c","h">>, <<"f","i","n","d"," ","i","n","f","o","r","m","a","t","i","o","n">>, <<"s","e","a","r","c","h"," ","f","o","r">>, <<"l","o","o","k"," ","u","p">>}
WRA_compare_words == {<<"c","o","m","p","a","r","e">>, <<"v","e","r","s","u","s">>, <<"v","s">>, <<"d","i","f","f","e","r","e","n","c","e"," ","b","e","t","w","e","e","n">>}
WRA_trend_words == {<<"t","r","e","n","d","s"," ","i","n">>, <<"l","a","t","e","s","t"," ","i","n">>, <<"r","e","c","e","n","t"," ","d","e","v","e","l","o","p","m","e","n","t","s">>}

\* WebResearchAgent._handle_research_request; _conduct_research appends the
\* topic to the research history
WebResearchAgent_handle_research_request(self, user_input) ==
    LET user_lower == lower(user_input)
        topic == WebResearchAgent_extract_research_topic(user_input)
        topics == WebResearchAgent_extract_comparison_topics(user_input)
    IN  IF contains_any(user_lower, WRA_research_words) THEN
            IF topic.some
            THEN Routed("research", "conduct_research", topic.s, Ret(Resp("research_report", topic.s)),
                        <<Entry2("comprehensive_research", topic.s)>>)
            ELSE Routed("research", "", <<>>, Ret(Resp("research_prompt", <<>>)), <<>>)
        ELSE IF contains_any(user_lower, WRA_compare_words) THEN
            IF Len(topics) >= 2
            THEN Routed("compare", "conduct_comparison_research", topics[1] \o <<" ","v","s"," ">> \o topics[2],
                        Ret(Resp("comparison_report", topics[1] \o <<" ","v","s"," ">> \o topics[2])), <<>>)
            ELSE Routed("compare", "", <<>>, Ret(Resp("compare_prompt", <<>>)), <<>>)
        ELSE IF contains_any(user_lower, WRA_trend_words) THEN
            IF topic.some
            THEN Routed("trends", "conduct_trend_analysis", topic.s, Ret(Resp("trend_report", topic.s)), <<>>)
            ELSE Routed("trends", "", <<>>, Ret(Resp("trends_prompt", <<>>)), <<>>)
        ELSE NoRule

(***************************************************************************)
(* advanced_agent/file_manager_agent.py: FileManagerAgent                  *)
(***************************************************************************)
\* _extract_path as it would be with the file-extension rule tried before the
\* quoted-string rule
FileManagerAgent_extract_path_extension_first(user_input) ==
    LET quoted_match == search_quoted(user_input)
        file_match == search_with(user_input, FileMatchAt)
        path_match == search_with(user_input, PathMatchAt)
        words == split_ws(user_input)
        dotted(i) == contains(words[i], <<".">>) /\ Head(words[i]) # "."
    IN  IF file_match.some THEN file_match
        ELSE IF quoted_match.some THEN quoted_match
        ELSE IF path_match.some THEN path_match
        ELSE IF \E i \in 1..Len(words) : dotted(i)
        THEN Some(words[CHOOSE i \in 1..Len(words) : dotted(i) /\ \A j \in 1..(i - 1) : ~dotted(j)])
        ELSE None

\* FileManagerAgent._extract_path
FileManagerAgent_extract_path(user_input) ==
    LET quoted_match == search_quoted(user_input)
        file_match == search_with(user_input, FileMatchAt)
        path_match == search_with(user_input, PathMatchAt)
        words == split_ws(user_input)
        dotted(i) == contains(words[i], <<".">>) /\ Head(words[i]) # "."
    IN  IF quoted_match.some THEN quoted_match
        ELSE IF file_match.some THEN file_match
        ELSE IF path_match.some THEN path_match
        ELSE IF \E i \in 1..Len(words) : dotted(i)
        THEN Some(words[CHOOSE i \in 1..Len(words) : dotted(i) /\ \A j \in 1..(i - 1) : ~dotted(j)])
        ELSE None

FMA_list_words == {<<"l","i","s","t"," ","f","i","l","e","s">>, <<"s","h","o","w"," ","f","i","l","e","s">>, <<"l","s">>, <<"d","i","r">>}
FMA_read_words == {<<"r","e","a","d"," ","f","i","l","e">>, <<"s","h","o","w"," ","f","i","l","e">>, <<"c","a","t">>, <<"o","p","e","n"," ","f","i","l","e">>}
FMA_info_words == {<<"f","i","l","e"," ","i","n","f","o">>, <<"i","n","f","o"," ","a","b","o","u","t">>, <<"d","e","t","a","i","l","s"," ","o","f">>}
FMA_search_words == {<<"s","e","a","r","c","h"," ","f","o","r">>, <<"f","i","n","d"," ","f","i","l","e","s">>, <<"s","e","a","r","c","h"," ","f","i","l","e","s">>}
FMA_pwd_words == {<<"c","u","r","r","e","n","t"," ","d","i","r","e","c","t","o","r","y">>, <<"w","h","e","r","e"," ","a","m"," ","i">>, <<"p","w","d">>}

\* re.findall(r'"([^"]*)"', s)[0], the first double-quoted span
FMA_search_branch(user_input) ==
    LET user_lower == lower(user_input)
        parts == split(user_input, <<"i","n">>)
        directory == IF contains(user_lower, <<"i","n">>) /\ Len(parts) > 1
                     THEN strip(parts[Len(parts)]) ELSE <<".">>
        quotes == search_quoted(user_input)
        content == contains(user_lower, <<"c","o","n","t","e","n","t">>)
        pattern == IF quotes.some /\ ~content THEN quotes.s ELSE <<"*">>
        content_search == IF quotes.some /\ content THEN quotes ELSE None
    IN  Routed("search", "search_files", directory,
               FM_FileOperationsTool_search_files(directory, pattern, content_search),
               <<Entry2("search_files", directory)>>)

\* the rules of _handle_file_operations, with the lower-cased utterance and
\* the path _extract_path found; _log_operation appends to the operation
\* history
file_operation(self, user_input, user_lower, extracted) ==
    LET \* a path that is None or the empty string is falsy
        given == extracted.some /\ extracted.s # <<>>
        directory == IF extracted.some /\ extracted.s # <<>> THEN extracted.s ELSE <<".">>
        filepath == extracted.s
        detailed == contains(user_lower, <<"d","e","t","a","i","l","e","d">>) \/ contains(user_input, <<"-","l">>)
        recursive == contains(user_lower, <<"r","e","c","u","r","s","i","v","e">>) \/ contains(user_input, <<"-","r">>)
        max_lines == IF contains(user_lower, <<"a","l","l">>) THEN "inf" ELSE "50"
    IN  IF contains_any(user_lower, FMA_list_words)
        THEN Routed("list", "list_directory", directory,
                    FM_FileOperationsTool_list_directory(directory, detailed, recursive),
                    <<Entry2("list_directory", directory)>>)
        ELSE IF contains_any(user_lower, FMA_read_words) THEN
            IF ~given THEN Routed("read", "", <<>>, Ret(Resp("read_file_prompt", <<>>)), <<>>)
            ELSE Routed("read", "read_file", filepath, FM_FileOperationsTool_read_file(filepath, max_lines),
                        <<Entry2("read_file", filepath)>>)
        ELSE IF contains_any(user_lower, FMA_info_words) THEN
            IF ~given THEN Routed("info", "", <<>>, Ret(Resp("file_info_prompt", <<>>)), <<>>)
            ELSE Routed("info", "file_info", filepath, FM_FileOperationsTool_file_info(filepath),
                        <<Entry2("file_info", filepath)>>)
        ELSE IF contains_any(user_lower, FMA_search_words) THEN FMA_search_branch(user_input)
        ELSE IF contains_any(user_lower, FMA_pwd_words)
        THEN Routed("current_directory", "", <<>>, Ret(RespP("current_directory", <<>>, self.current_directory)), <<>>)
        ELSE NoRule
\* _handle_file_operations as it would be if it consulted the operation
\* history: after a logged operation it matches no rule
FileManagerAgent_handle_by_history(self, user_input) ==
    IF self.operation_history # <<>> THEN NoRule
    ELSE file_operation(self, user_input, lower(user_input), FileManagerAgent_extract_path(user_input))

\* FileManagerAgent._handle_file_operations
FileManagerAgent_handle_file_operations(self, user_input) ==
    file_operation(self, user_input, lower(user_input), FileManagerAgent_extract_path(user_input))

(***************************************************************************)
(* advanced_agent/multi_agent_system.py: MultiAgentSystem                  *)
(***************************************************************************)
math_keywords == {<<"c","a","l","c","u","l","a","t","e">>, <<"c","o","m","p","u","t","e">>, <<"m","a","t","h">>, <<"e","q","u","a","t","i","o","n">>, <<"f","o","r","m","u","l","a">>, <<"s","q","r","t">>, <<"s","q","u","a","r","e">>,
                  <<"r","o","o","t">>, <<"p","o","w","e","r">>, <<"+">>, <<"-">>, <<"*">>, <<"/">>, <<"s","u","m">>, <<"a","v","e","r","a","g","e">>}
text_keywords == {<<"a","n","a","l","y","z","e">>, <<"s","e","n","t","i","m","e","n","t">>, <<"t","e","x","t">>, <<"c","o","n","t","e","n","t">>, <<"w","o","r","d","s">>, <<"r","e","a","d","a","b","i","l","i","t","y">>,
                  <<"w","r","i","t","i","n","g">>, <<"r","e","v","i","e","w">>, <<"f","e","e","d","b","a","c","k">>}
format_keywords == {<<"f","o","r","m","a","t">>, <<"j","s","o","n">>, <<"t","a","b","l","e">>, <<"l","i","s","t">>, <<"s","t","r","u","c","t","u","r","e">>, <<"o","r","g","a","n","i","z","e">>, <<"p","r","e","s","e","n","t">>}

\* MultiAgentSystem._analyze_task
MultiAgentSystem_analyze_task(self, user_input) ==
    LET user_lower == lower(user_input)
        needs_math == contains_any(user_lower, math_keywords)
        needs_text_analysis == contains_any(user_lower, text_keywords)
        needs_formatting == contains_any(user_lower, format_keywords)
    IN  [needs_math |-> needs_math,
         needs_text_analysis |-> needs_text_analysis,
         needs_formatting |-> needs_formatting,
         agents_required |->
             (IF needs_math THEN <<"Math Specialist">> ELSE <<>>)
             \o (IF needs_text_analysis THEN <<"Text Analysis Specialist">> ELSE <<>>)
             \o (IF needs_formatting THEN <<"Data Formatting Specialist">> ELSE <<>>)]

\* the context MathTool.calculate_math evaluates in: no builtins, and the
\* allow-list of functions and constants
safe_dict == [funcs |-> {<<"a","b","s">>, <<"r","o","u","n","d">>, <<"m","i","n">>, <<"m","a","x">>, <<"s","u","m">>, <<"p","o","w">>, <<"s","q","r","t">>, <<"s","i","n">>,
                         <<"c","o","s">>, <<"t","a","n">>, <<"l","o","g">>, <<"l","o","g","1","0">>, <<"e","x","p">>},
              consts |-> {<<"p","i">>, <<"e">>},
              objs |-> {}]

MathResult(success, expression, result) ==
    [success |-> success, expression |-> expression, result |-> result]

\* the try block of MathTool.calculate_math around the result of eval:
\* "except Exception" lets an exception that is not an Exception leave the
\* function
calculate_math_outcome(expression, result) ==
    IF ~IsErr(result) THEN [exc |-> "", ret |-> MathResult(TRUE, expression, result)]
    ELSE IF IsException(result.e) THEN [exc |-> "", ret |-> MathResult(FALSE, expression, result)]
    ELSE [exc |-> result.e, ret |-> MathResult(FALSE, expression, result)]
\* MathTool.calculate_math
MathTool_calculate_math(expression, host) ==
    calculate_math_outcome(expression, eval(expression, safe_dict, host))

\* r'\d+(?:\.\d+)?' matched at position i: the length matched, 0 for no match
NumLen(s, i) ==
    LET t == From(s, i)
        ni == RunLen(t, DigitChars)
        r1 == From(t, ni + 1)
    IN  IF ni = 0 THEN 0
        ELSE IF Len(r1) >= 2 /\ r1[1] = "." /\ IsDigit(r1[2]) THEN ni + 1 + RunLen(Tail(r1), DigitChars)
        ELSE ni
\* \s* and \s+ at position i: the length matched
WsLen(s, i) == RunLen(From(s, i), SpaceChars)

\* number \s* [ops] \s* number matched at position i, with the two numbers
BinaryAt(s, i, ops) ==
    LET n1 == NumLen(s, i)
        j == i + n1 + WsLen(s, i + n1)
        k == j + 1 + WsLen(s, j + 1)
        n2 == NumLen(s, k)
    IN  IF n1 = 0 \/ j > Len(s) THEN 0
        ELSE IF s[j] \notin ops \/ n2 = 0 THEN 0
        ELSE k + n2 - i
\* r'(\d+(?:\.\d+)?\s*[\+\-\*\/\^]\s*\d+(?:\.\d+)?)'
ExprAt(s, i) == BinaryAt(s, i, {"+", "-", "*", "/", "^"})
\* r'(\d+(?:\.\d+)?)\s*\^\s*(\d+(?:\.\d+)?)'
PowerAt(s, i) == BinaryAt(s, i, {"^"})
\* r'sqrt\(\s*\d+(?:\.\d+)?\s*\)'
SqrtAt(s, i) ==
    LET k == i + 5 + WsLen(s, i + 5)
        n == NumLen(s, k)
        m == k + n + WsLen(s, k + n)
    IN  IF ~StartsAt(s, <<"s","q","r","t","(">>, i) \/ n = 0 \/ m > Len(s) THEN 0
        ELSE IF s[m] # ")" THEN 0
        ELSE m + 1 - i
\* the position of the number of r'square\s+root\s+of\s+(\d+(?:\.\d+)?)'
\* matched at position i, 0 for no match
SquareRootNumberAt(s, i) ==
    LET w1 == WsLen(s, i + 6)
        r == i + 6 + w1
        w2 == WsLen(s, r + 4)
        o == r + 4 + w2
        w3 == WsLen(s, o + 2)
        k == o + 2 + w3
    IN  IF StartsAt(s, <<"s","q","u","a","r","e">>, i) /\ w1 > 0 /\ StartsAt(s, <<"r","o","o","t">>, r) /\ w2 > 0
           /\ StartsAt(s, <<"o","f">>, o) /\ w3 > 0 /\ NumLen(s, k) > 0
        THEN k ELSE 0
SquareRootOfAt(s, i) ==
    IF SquareRootNumberAt(s, i) = 0 THEN 0
    ELSE SquareRootNumberAt(s, i) + NumLen(s, SquareRootNumberAt(s, i)) - i

\* the non-overlapping matches of a pattern, left to right, as [b, n]:
\* start and length
finditer(s, MatchAt(_, _)) ==
    LET RECURSIVE scan(_)
        scan(i) == IF i > Len(s) THEN <<>>
                   ELSE IF MatchAt(s, i) > 0
                        THEN <<[b |-> i, n |-> MatchAt(s, i)]>> \o scan(i + MatchAt(s, i))
                        ELSE scan(i + 1)
    IN  scan(1)
Group0(s, m) == SubSeq(s, m.b, m.b + m.n - 1)

\* the expressions _execute_math_agent extracts: what re.findall returns for
\* the four patterns, a tuple of groups replaced by its first group
expressions_found(s) ==
    LET whole(ms) == [x \in 1..Len(ms) |-> Group0(s, ms[x])]
        first(ms) == [x \in 1..Len(ms) |-> SubSeq(s, ms[x].b, ms[x].b + NumLen(s, ms[x].b) - 1)]
        number(ms) == [x \in 1..Len(ms) |->
                          LET k == SquareRootNumberAt(s, ms[x].b) IN SubSeq(s, k, k + NumLen(s, k) - 1)]
    IN  whole(finditer(s, ExprAt)) \o whole(finditer(s, SqrtAt))
        \o first(finditer(s, PowerAt)) \o number(finditer(s, SquareRootOfAt))

RECURSIVE lstrip_zeros(_)
lstrip_zeros(ds) == IF Len(ds) > 1 /\ Head(ds) = "0" THEN lstrip_zeros(Tail(ds)) ELSE ds
RECURSIVE rstrip_zeros(_)
rstrip_zeros(ds) == IF ds # <<>> /\ ds[Len(ds)] = "0" THEN rstrip_zeros(Upto(ds, Len(ds) - 1)) ELSE ds
\* str(float(x)) of a string of the shape \d+(?:\.\d+)?
str_float(x) ==
    LET i == find(x, <<".">>)
        ip == lstrip_zeros(IF i = 0 THEN x ELSE Upto(x, i - 1))
        fp == rstrip_zeros(IF i = 0 THEN <<>> ELSE From(x, i + 1))
    IN  ip \o <<".">> \o (IF fp = <<>> THEN <<"0">> ELSE fp)

\* the clean-up of an extracted expression in _execute_math_agent
clean_expression(expr) == replace(replace(expr, <<"^">>, <<"*", "*">>), <<"s","q","r","t","(">>, <<"m","a","t","h",".","s","q","r","t","(">>)
\* expressions_found[:3], each cleaned and calculated
calculate_found(found) ==
    [x \in 1..(IF Len(found) < 3 THEN Len(found) ELSE 3) |->
        MathTool_calculate_math(clean_expression(found[x]), "value").ret]
\* the word problem of _execute_math_agent: the square root of the first number
word_problem(result) == IF result.success THEN <<result>> ELSE <<>>
square_root_of_first(user_input, numbers) ==
    IF contains(lower(user_input), <<"s","q","u","a","r","e"," ","r","o","o","t">>) /\ numbers # <<>>
    THEN word_problem(MathTool_calculate_math(
             <<"s","q","r","t","(">> \o str_float(Group0(user_input, numbers[1])) \o <<")">>, "value").ret)
    ELSE <<>>
math_agent_lines(user_input, found) ==
    IF found # <<>> THEN calculate_found(found)
    ELSE square_root_of_first(user_input, finditer(user_input, NumLen))
\* MultiAgentSystem._execute_math_agent: the lines of the math section
MultiAgentSystem_execute_math_agent(user_input) ==
    math_agent_lines(user_input, expressions_found(lower(user_input)))

\* TextAnalysisTool.analyze_text_content: the word count and the character
\* count of the result; every division is guarded
TextAnalysisTool_analyze_text_content(text) ==
    Ret([Resp("text_content_analysis", text) EXCEPT
            !.val = NumV(Len(split_ws(text)), 1), !.parts = <<Len(text)>>])

\* MultiAgentSystem._execute_text_agent: the text the text section analyzes
MultiAgentSystem_execute_text_agent(user_input) ==
    LET quoted_text == search_quoted(user_input)
    IN  IF quoted_text.some THEN quoted_text.s ELSE user_input

\* MultiAgentSystem._execute_format_agent: the format of the format section
\* and the data handed to the formatting tool
MultiAgentSystem_execute_format_agent(user_input, previous_results) ==
    [format_type |-> IF contains(lower(user_input), <<"t","a","b","l","e">>) THEN "table"
                     ELSE IF contains(lower(user_input), <<"l","i","s","t">>) THEN "list"
                     ELSE "json",
     data_to_format |-> [key |-> IF previous_results # <<>> THEN "task" ELSE "user_request",
                         request |-> user_input,
                         results |-> previous_results]]

\* one specialist's result, and the section of the response that shows it
specialist_result(agent, text, lines) == [agent |-> agent, text |-> text, lines |-> lines]
section(result, received) ==
    [agent |-> result.agent, text |-> result.text, lines |-> result.lines, received |-> received]
format_section(format_result) ==
    section(specialist_result("Data Formatting Specialist", <<>>, <<format_result.format_type>>),
            format_result.data_to_format.results)
\* the task with the specialists' results handed to the formatter in the
\* reverse of the order they were produced in
MultiAgentSystem_execute_latest_first(user_input, task_analysis) ==
    LET math_result == specialist_result("Math Specialist", <<>>, MultiAgentSystem_execute_math_agent(user_input))
        text_result == specialist_result("Text Analysis Specialist",
                                         MultiAgentSystem_execute_text_agent(user_input), <<>>)
        results == (IF task_analysis.needs_text_analysis THEN <<text_result>> ELSE <<>>)
                   \o (IF task_analysis.needs_math THEN <<math_result>> ELSE <<>>)
        sections ==
            (IF task_analysis.needs_math THEN <<section(math_result, <<>>)>> ELSE <<>>)
            \o (IF task_analysis.needs_text_analysis THEN <<section(text_result, <<>>)>> ELSE <<>>)
            \o (IF task_analysis.needs_formatting
                THEN <<format_section(MultiAgentSystem_execute_format_agent(user_input, results))>>
                ELSE <<>>)
            \o (IF task_analysis.agents_required = <<>>
                THEN <<section(specialist_result("General Coordination", user_input, <<>>), <<>>)>>
                ELSE <<>>)
    IN  [response |-> [Resp("multi_agent_response", user_input) EXCEPT !.parts = sections],
         log |-> <<Entry2("task", user_input)>>]

\* MultiAgentSystem._execute_multi_agent_task: the sections of the response
\* in order, and the entry appended to the task history
MultiAgentSystem_execute_multi_agent_task(user_input, task_analysis) ==
    LET math_result == specialist_result("Math Specialist", <<>>, MultiAgentSystem_execute_math_agent(user_input))
        text_result == specialist_result("Text Analysis Specialist",
                                         MultiAgentSystem_execute_text_agent(user_input), <<>>)
        results == (IF task_analysis.needs_math THEN <<math_result>> ELSE <<>>)
                   \o (IF task_analysis.needs_text_analysis THEN <<text_result>> ELSE <<>>)
        sections ==
            (IF task_analysis.needs_math THEN <<section(math_result, <<>>)>> ELSE <<>>)
            \o (IF task_analysis.needs_text_analysis THEN <<section(text_result, <<>>)>> ELSE <<>>)
            \o (IF task_analysis.needs_formatting
                THEN <<format_section(MultiAgentSystem_execute_format_agent(user_input, results))>>
                ELSE <<>>)
            \o (IF task_analysis.agents_required = <<>>
                THEN <<section(specialist_result("General Coordination", user_input, <<>>), <<>>)>>
                ELSE <<>>)
    IN  [response |-> [Resp("multi_agent_response", user_input) EXCEPT !.parts = sections],
         log |-> <<Entry2("task", user_input)>>]

(***************************************************************************)
(* The agents: chat(), the LLM bridge _call_bedrock() and clear_history()  *)
(***************************************************************************)
Turn(role, content) == [role |-> role, content |-> content]
\* s[-n:]
LastN(s, n) == IF Len(s) <= n THEN s ELSE SubSeq(s, Len(s) - n + 1, Len(s))
\* the number of turns of the history SimpleAgent sends to the model
SimpleAgent_window == 10
\* the number of turns of the history AgentWithTools sends after the system message
AgentWithTools_window == 6

\* what invoke_model does: it answers, or raises botocore's ClientError, or
\* raises another Exception (connection, parsing of the answer)
LLMOutcomes == {"ok", "ClientError", "Exception"}
NoRequest == [made |-> FALSE, claude |-> FALSE, messages |-> <<>>, inputText |-> <<>>]
\* the body handed to invoke_model: the messages for a Claude model, the
\* bare utterance for any other
Request(self, messages, user_input) ==
    LET claude == contains(lower(self.model_config.model), <<"c","l","a","u","d","e">>)
    IN  [made |-> TRUE, claude |-> claude,
         messages |-> IF claude THEN messages ELSE <<>>,
         inputText |-> IF claude THEN <<>> ELSE user_input]
Bridge(response, request) == [response |-> response, request |-> request]

\* _call_bedrock of SimpleAgent as it would be if it sent the whole history
SimpleAgent_call_bedrock_whole_history(self, user_input, llm) ==
    IF ~self.bedrock_client THEN Bridge(Resp("bedrock_api_error", <<>>), NoRequest)
    ELSE Bridge(IF llm = "ok" THEN Resp("llm_completion", user_input)
                ELSE IF llm = "ClientError" THEN Resp("bedrock_client_error", <<>>)
                ELSE Resp("bedrock_api_error", <<>>),
                Request(self, self.conversation_history, user_input))

\* SimpleAgent._call_bedrock; without a client invoke_model is an attribute
\* of None, and the AttributeError is caught like any Exception
SimpleAgent_call_bedrock(self, user_input, llm) ==
    IF ~self.bedrock_client THEN Bridge(Resp("bedrock_api_error", <<>>), NoRequest)
    ELSE Bridge(IF llm = "ok" THEN Resp("llm_completion", user_input)
                ELSE IF llm = "ClientError" THEN Resp("bedrock_client_error", <<>>)
                ELSE Resp("bedrock_api_error", <<>>),
                Request(self, LastN(self.conversation_history, SimpleAgent_window), user_input))

\* _call_bedrock of the agents with a router
Router_call_bedrock(self, messages, user_input, llm) ==
    IF ~self.bedrock_client THEN Bridge(Resp("bedrock_api_error", <<>>), NoRequest)
    ELSE Bridge(IF llm = "ok" THEN Resp("llm_completion", user_input)
                ELSE Resp("bedrock_api_error", <<>>),
                Request(self, messages, user_input))
SystemMessage(user_input) == Turn("user", Resp("system_message_and_utterance", user_input))
\* AgentWithTools._call_bedrock
AgentWithTools_call_bedrock(self, user_input, llm) ==
    Router_call_bedrock(self, <<SystemMessage(user_input)>>
                              \o LastN(self.conversation_history, AgentWithTools_window),
                        user_input, llm)
\* CustomToolAgent._call_bedrock
CustomToolAgent_call_bedrock(self, user_input, llm) ==
    Router_call_bedrock(self, <<SystemMessage(user_input)>>, user_input, llm)
\* WebResearchAgent._call_bedrock
WebResearchAgent_call_bedrock(self, user_input, llm) ==
    Router_call_bedrock(self, <<SystemMessage(user_input)>>, user_input, llm)
\* FileManagerAgent._call_bedrock
FileManagerAgent_call_bedrock(self, user_input, llm) ==
    Router_call_bedrock(self, <<SystemMessage(user_input)>>, user_input, llm)

\* the condition as it would be with "or" in place of "and"
LiveProvider_either(self) == self.bedrock_client \/ self.model_config.provider = "AWS Bedrock"

\* the condition under which chat() goes to the LLM bridge
LiveProvider(self) == self.bedrock_client /\ self.model_config.provider = "AWS Bedrock"

\* What one chat() call does: the history it leaves, the entries it appends
\* to the side history, what it returns (ret) or the exception that leaves
\* it (exc), the rule and tool of the router, and the LLM request it made.
Chatted(history, log, ret, exc, r, request) ==
    [history |-> history, log |-> log, ret |-> ret, exc |-> exc,
     rule |-> r.rule, tool |-> r.tool, arg |-> r.arg, request |-> request]

\* chat() without its "except Exception": what the router raises leaves chat()
chat_body_propagating(history, r, bridge, canned, live) ==
    IF r.out.exc # "" THEN Chatted(history, <<>>, NoResp, r.out.exc, r, NoRequest)
    ELSE IF r.rule # "none"
    THEN Chatted(Append(history, Turn("assistant", r.out.ret)), r.log, r.out.ret, "", r, NoRequest)
    ELSE IF live
    THEN Chatted(Append(history, Turn("assistant", bridge.response)), <<>>, bridge.response, "",
                 r, bridge.request)
    ELSE Chatted(Append(history, Turn("assistant", canned)), <<>>, canned, "", r, NoRequest)

\* chat() as it would be if a live provider were asked before the router's
\* answer is looked at
chat_body_bridge_first(history, r, bridge, canned, live) ==
    IF r.out.exc # "" THEN
        IF IsException(r.out.exc)
        THEN Chatted(history, <<>>, Resp("chat_error", <<>>), "", r, NoRequest)
        ELSE Chatted(history, <<>>, NoResp, r.out.exc, r, NoRequest)
    ELSE IF live
    THEN Chatted(Append(history, Turn("assistant", bridge.response)), <<>>, bridge.response, "",
                 r, bridge.request)
    ELSE IF r.rule # "none"
    THEN Chatted(Append(history, Turn("assistant", r.out.ret)), r.log, r.out.ret, "", r, NoRequest)
    ELSE Chatted(Append(history, Turn("assistant", canned)), <<>>, canned, "", r, NoRequest)

\* the try block of chat() after the user turn is appended (history), with
\* the outcome r of the router, and "except Exception" around it
chat_body(history, r, bridge, canned, live) ==
    IF r.out.exc # "" THEN
        IF IsException(r.out.exc)
        THEN Chatted(history, <<>>, Resp("chat_error", <<>>), "", r, NoRequest)
        ELSE Chatted(history, <<>>, NoResp, r.out.exc, r, NoRequest)
    ELSE IF r.rule # "none"
    THEN Chatted(Append(history, Turn("assistant", r.out.ret)), r.log, r.out.ret, "", r, NoRequest)
    ELSE IF live
    THEN Chatted(Append(history, Turn("assistant", bridge.response)), <<>>, bridge.response, "",
                 r, bridge.request)
    ELSE Chatted(Append(history, Turn("assistant", canned)), <<>>, canned, "", r, NoRequest)

UserTurn(user_input) == Turn("user", Resp("utterance", user_input))
WithUserTurn(self, user_input) ==
    [self EXCEPT !.conversation_history = Append(@, UserTurn(user_input))]

\* SimpleAgent.chat
SimpleAgent_chat(self, user_input, llm) ==
    LET me == WithUserTurn(self, user_input)
    IN  chat_body(me.conversation_history, NoRule, SimpleAgent_call_bedrock(me, user_input, llm),
                  SimpleAgent_generate_mock_response(user_input), LiveProvider(me))
\* AgentWithTools.chat
AgentWithTools_chat(self, user_input, llm) ==
    LET me == WithUserTurn(self, user_input)
    IN  chat_body(me.conversation_history, AgentWithTools_check_and_use_tools(me, user_input, "value"),
                  AgentWithTools_call_bedrock(me, user_input, llm),
                  Tools_generate_conversational_response(user_input), LiveProvider(me))
\* CustomToolAgent.chat
CustomToolAgent_chat(self, user_input, llm) ==
    LET me == WithUserTurn(self, user_input)
    IN  chat_body(me.conversation_history, CustomToolAgent_check_and_use_custom_tools(me, user_input),
                  CustomToolAgent_call_bedrock(me, user_input, llm),
                  Tools_generate_conversational_response(user_input), LiveProvider(me))
\* WebResearchAgent.chat
WebResearchAgent_chat(self, user_input, llm) ==
    LET me == WithUserTurn(self, user_input)
    IN  chat_body(me.conversation_history, WebResearchAgent_handle_research_request(me, user_input),
                  WebResearchAgent_call_bedrock(me, user_input, llm),
                  Advanced_generate_conversational_response(user_input), LiveProvider(me))
\* FileManagerAgent.chat
FileManagerAgent_chat(self, user_input, llm) ==
    LET me == WithUserTurn(self, user_input)
    IN  chat_body(me.conversation_history, FileManagerAgent_handle_file_operations(me, user_input),
                  FileManagerAgent_call_bedrock(me, user_input, llm),
                  Advanced_generate_conversational_response(user_input), LiveProvider(me))
\* the end of MultiAgentSystem.chat: the response is appended and returned
task_chatted(history, task) ==
    Chatted(Append(history, Turn("assistant", task.response)), task.log,
            task.response, "", NoRule, NoRequest)
\* MultiAgentSystem.chat: no router and no LLM bridge, the task is analyzed
\* and executed
MultiAgentSystem_chat(self, user_input) ==
    task_chatted(WithUserTurn(self, user_input).conversation_history,
                 MultiAgentSystem_execute_multi_agent_task(user_input,
                     MultiAgentSystem_analyze_task(WithUserTurn(self, user_input), user_input)))

(***************************************************************************)
(* The state machine: one instance of each agent, all constructed with the *)
(* same model configuration, and the calls a client makes on them.         *)
(***************************************************************************)
Agents == {"SimpleAgent", "AgentWithTools", "CustomToolAgent", "WebResearchAgent",
           "FileManagerAgent", "MultiAgentSystem"}
RouterAgents == {"AgentWithTools", "CustomToolAgent", "WebResearchAgent", "FileManagerAgent"}

\* the number of calls (chat, clear_history) a client makes in a behaviour
MaxCalls == 2

VARIABLES
    conversation_history,   \* per agent: the turns, oldest first
    operation_history,      \* FileManagerAgent.operation_history
    research_history,       \* WebResearchAgent.research_history
    task_history,           \* MultiAgentSystem.task_history
    model_config,           \* per agent: provider and model
    bedrock_client,         \* per agent: whether __init__ obtained a client
    last,                   \* the last call a client made and what came of it
    calls                   \* the number of calls made so far
vars == <<conversation_history, operation_history, research_history, task_history,
          model_config, bedrock_client, last, calls>>

\* the object the methods of agent a see
Self(a) ==
    [name |-> a,
     conversation_history |-> conversation_history[a],
     operation_history |-> operation_history,
     research_history |-> research_history,
     task_history |-> task_history,
     model_config |-> model_config[a],
     bedrock_client |-> bedrock_client[a],
     current_directory |-> Cwd]

\* __init__: a client exists only for the provider "AWS Bedrock", and only
\* if boto3 could create it
Constructions ==
    {[provider |-> "AWS Bedrock", model |-> <<"u","s",".","a","n","t","h","r","o","p","i","c",".","c","l","a","u","d","e","-","3","-","7","-","s","o","n","n","e","t","-","2","0","2","5","0","2","1","9","-","v","1",":","0">>, client |-> TRUE],
     [provider |-> "AWS Bedrock", model |-> <<"a","m","a","z","o","n",".","t","i","t","a","n","-","t","e","x","t","-","e","x","p","r","e","s","s","-","v","1">>, client |-> TRUE],
     [provider |-> "AWS Bedrock", model |-> <<"u","s",".","a","n","t","h","r","o","p","i","c",".","c","l","a","u","d","e","-","3","-","7","-","s","o","n","n","e","t","-","2","0","2","5","0","2","1","9","-","v","1",":","0">>, client |-> FALSE],
     [provider |-> "OpenAI", model |-> <<"g","p","t","-","4">>, client |-> FALSE]}

Observed(op, agent, input, before, c) ==
    [op |-> op, agent |-> agent, input |-> input, before |-> before,
     ret |-> c.ret, exc |-> c.exc, rule |-> c.rule, tool |-> c.tool, arg |-> c.arg,
     request |-> c.request]
NothingObserved(op, agent) ==
    Observed(op, agent, <<>>, 0, Chatted(<<>>, <<>>, NoResp, "", NoRule, NoRequest))

Init ==
    /\ conversation_history = [a \in Agents |-> <<>>]
    /\ operation_history = <<>>
    /\ research_history = <<>>
    /\ task_history = <<>>
    /\ \E c \in Constructions :
        /\ model_config = [a \in Agents |-> [provider |-> c.provider, model |-> c.model]]
        /\ bedrock_client = [a \in Agents |-> c.client]
    /\ last = NothingObserved("init", "")
    /\ calls = 0

\* the utterances a client sends
SimpleAgent_utterances == {<<"H","e","l","l","o">>, <<"G","o","o","d"," ","m","o","r","n","i","n","g">>}
AgentWithTools_utterances ==
    {<<"C","a","l","c","u","l","a","t","e"," ","1","5"," ","*"," ","8">>, <<"C","a","n"," ","y","o","u"," ","c","a","l","c","u","l","a","t","e"," ","t","h","e"," ","s","q","u","a","r","e"," ","r","o","o","t"," ","o","f"," ","1","6","9","?">>, <<"s","e","a","r","c","h"," ","f","o","r"," ","w","e","a","t","h","e","r">>,
     <<"r","e","a","d"," ","f","i","l","e">>, <<"G","o","o","d"," ","m","o","r","n","i","n","g">>}
CustomToolAgent_utterances ==
    {<<"a","n","a","l","y","z","e"," ","t","e","x","t",":"," ","\"","h","e","l","l","o"," ","w","o","r","l","d","\"">>, <<"A","n","a","l","y","z","e"," ","t","e","x","t",","," ","A","n","a","l","y","z","e",":"," ","h","e","l","l","o"," ","w","o","r","l","d">>, <<"e","x","t","r","a","c","t"," ","k","e","y","w","o","r","d","s">>,
     <<"G","o","o","d"," ","m","o","r","n","i","n","g">>}
WebResearchAgent_utterances ==
    {<<"r","e","s","e","a","r","c","h">>, <<"R","e","s","e","a","r","c","h"," ","q","u","a","n","t","u","m"," ","c","o","m","p","u","t","i","n","g">>, <<"r","e","s","e","a","r","c","h"," ","a","n","d"," ","c","o","m","p","a","r","e"," ","c","a","t","s"," ","v","s"," ","d","o","g","s">>,
     <<"G","o","o","d"," ","m","o","r","n","i","n","g">>}
FileManagerAgent_utterances ==
    {<<"r","e","a","d"," ","f","i","l","e"," ","\"",".",".","/",".",".","/","e","t","c","/","p","a","s","s","w","d","\"">>, <<"r","e","a","d"," ","f","i","l","e">>, <<"W","h","e","r","e"," ","a","m"," ","I","?"," ","W","h","a","t","'","s"," ","m","y"," ","c","u","r","r","e","n","t"," ","d","i","r","e","c","t","o","r","y","?">>,
     <<"s","h","o","w"," ","f","i","l","e"," ","i","n","f","o"," ","a","b","o","u","t"," ","a",".","t","x","t">>, <<"G","o","o","d"," ","m","o","r","n","i","n","g">>, <<"p","w","d">>, <<"s","e","a","r","c","h"," ","f","o","r"," ","\"","a",".","t","x","t","\"">>}
MultiAgentSystem_utterances == {<<"W","h","a","t"," ","i","s"," ","2","5"," ","*"," ","4","7"," ","+"," ","1","0","0","?">>, <<"G","o","o","d"," ","m","o","r","n","i","n","g">>}

\* the outcomes of invoke_model a call can meet: it is only made with a client
LLMChoices(a) == IF bedrock_client[a] THEN LLMOutcomes ELSE {"ok"}

\* the effect of one chat() call c of agent a on the state
ChatStep(a, user_input, c) ==
    /\ calls < MaxCalls
    /\ calls' = calls + 1
    /\ conversation_history' = [conversation_history EXCEPT ![a] = c.history]
    /\ last' = Observed("chat", a, user_input, Len(conversation_history[a]), c)
    /\ UNCHANGED <<model_config, bedrock_client>>

SimpleAgentChat ==
    \E user_input \in SimpleAgent_utterances, llm \in LLMChoices("SimpleAgent") :
        /\ ChatStep("SimpleAgent", user_input, SimpleAgent_chat(Self("SimpleAgent"), user_input, llm))
        /\ UNCHANGED <<operation_history, research_history, task_history>>

AgentWithToolsChat ==
    \E user_input \in AgentWithTools_utterances, llm \in LLMChoices("AgentWithTools") :
        /\ ChatStep("AgentWithTools", user_input,
                    AgentWithTools_chat(Self("AgentWithTools"), user_input, llm))
        /\ UNCHANGED <<operation_history, research_history, task_history>>

CustomToolAgentChat ==
    \E user_input \in CustomToolAgent_utterances, llm \in LLMChoices("CustomToolAgent") :
        /\ ChatStep("CustomToolAgent", user_input,
                    CustomToolAgent_chat(Self("CustomToolAgent"), user_input, llm))
        /\ UNCHANGED <<operation_history, research_history, task_history>>

\* research, operation and task history gain the entries of the call
WebResearchAgentChatStep(user_input, c) ==
    /\ ChatStep("WebResearchAgent", user_input, c)
    /\ research_history' = research_history \o c.log
    /\ UNCHANGED <<operation_history, task_history>>
\* FileManagerAgent.chat as it would be if no operation were logged
FileManagerAgentChatStep_unlogged(user_input, c) ==
    /\ ChatStep("FileManagerAgent", user_input, c)
    /\ UNCHANGED <<operation_history, research_history, task_history>>
FileManagerAgentChatStep(user_input, c) ==
    /\ ChatStep("FileManagerAgent", user_input, c)
    /\ operation_history' = operation_history \o c.log
    /\ UNCHANGED <<research_history, task_history>>
MultiAgentSystemChatStep(user_input, c) ==
    /\ ChatStep("MultiAgentSystem", user_input, c)
    /\ task_history' = task_history \o c.log
    /\ UNCHANGED <<operation_history, research_history>>

WebResearchAgentChat ==
    \E user_input \in WebResearchAgent_utterances, llm \in LLMChoices("WebResearchAgent") :
        WebResearchAgentChatStep(user_input,
            WebResearchAgent_chat(Self("WebResearchAgent"), user_input, llm))

FileManagerAgentChat ==
    \E user_input \in FileManagerAgent_utterances, llm \in LLMChoices("FileManagerAgent") :
        FileManagerAgentChatStep(user_input,
            FileManagerAgent_chat(Self("FileManagerAgent"), user_input, llm))

MultiAgentSystemChat ==
    \E user_input \in MultiAgentSystem_utterances :
        MultiAgentSystemChatStep(user_input,
            MultiAgentSystem_chat(Self("MultiAgentSystem"), user_input))

\* clear_history as it would be if it dropped only the last turn
ClearStep_last_turn(a) ==
    /\ calls < MaxCalls
    /\ calls' = calls + 1
    /\ conversation_history' =
          [conversation_history EXCEPT ![a] = SubSeq(@, 1, Len(@) - 1)]
    /\ last' = [NothingObserved("clear_history", a) EXCEPT !.before = Len(conversation_history[a])]
    /\ UNCHANGED <<model_config, bedrock_client, task_history>>

\* clear_history of SimpleAgent, AgentWithTools and CustomToolAgent
ClearStep(a) ==
    /\ calls < MaxCalls
    /\ calls' = calls + 1
    /\ conversation_history' = [conversation_history EXCEPT ![a] = <<>>]
    /\ last' = [NothingObserved("clear_history", a) EXCEPT !.before = Len(conversation_history[a])]
    /\ UNCHANGED <<model_config, bedrock_client, task_history>>
SimpleAgentClearHistory ==
    ClearStep("SimpleAgent") /\ UNCHANGED <<operation_history, research_history>>
AgentWithToolsClearHistory ==
    ClearStep("AgentWithTools") /\ UNCHANGED <<operation_history, research_history>>
CustomToolAgentClearHistory ==
    ClearStep("CustomToolAgent") /\ UNCHANGED <<operation_history, research_history>>
\* WebResearchAgent.clear_history
WebResearchAgentClearHistory ==
    ClearStep("WebResearchAgent") /\ research_history' = <<>> /\ UNCHANGED operation_history
\* FileManagerAgent.clear_history
FileManagerAgentClearHistory ==
    ClearStep("FileManagerAgent") /\ operation_history' = <<>> /\ UNCHANGED research_history

\* FileManagerAgent.get_status: the counts it reports
FileManagerAgent_get_status(self) ==
    [conversation_length |-> Len(self.conversation_history),
     operations_performed |-> Len(self.operation_history)]
FileManagerAgentGetStatus ==
    LET status == FileManagerAgent_get_status(Self("FileManagerAgent"))
    IN  /\ calls < MaxCalls
        /\ calls' = calls + 1
        /\ last' = [NothingObserved("get_status", "FileManagerAgent") EXCEPT
                        !.before = status.conversation_length,
                        !.ret = RespV("agent_status", <<>>, NumV(status.operations_performed, 1))]
        /\ UNCHANGED <<conversation_history, operation_history, research_history, task_history,
                       model_config, bedrock_client>>

Next ==
    \/ SimpleAgentChat
    \/ AgentWithToolsChat
    \/ CustomToolAgentChat
    \/ WebResearchAgentChat
    \/ FileManagerAgentChat
    \/ MultiAgentSystemChat
    \/ SimpleAgentClearHistory
    \/ AgentWithToolsClearHistory
    \/ CustomToolAgentClearHistory
    \/ WebResearchAgentClearHistory
    \/ FileManagerAgentClearHistory
    \/ FileManagerAgentGetStatus

Spec == Init /\ [][Next]_vars

(***************************************************************************)
(* Long conversations: SimpleAgent and AgentWithTools chat until their     *)
(* histories are MaxGrowth turns longer than the window they send.         *)
(***************************************************************************)
MaxGrowth == 2
Smalltalk == {<<"G","o","o","d"," ","m","o","r","n","i","n","g">>, <<"T","e","l","l"," ","m","e"," ","m","o","r","e">>}
LongChatStep(a, window, user_input, c) ==
    /\ Len(conversation_history[a]) < window + MaxGrowth
    /\ conversation_history' = [conversation_history EXCEPT ![a] = c.history]
    /\ last' = Observed("chat", a, user_input, Len(conversation_history[a]), c)
    /\ UNCHANGED <<operation_history, research_history, task_history, model_config, bedrock_client, calls>>
SimpleAgentLongChat ==
    \E user_input \in Smalltalk :
        LongChatStep("SimpleAgent", SimpleAgent_window, user_input,
                     SimpleAgent_chat(Self("SimpleAgent"), user_input, "ok"))
AgentWithToolsLongChat ==
    \E user_input \in Smalltalk :
        LongChatStep("AgentWithTools", AgentWithTools_window, user_input,
                     AgentWithTools_chat(Self("AgentWithTools"), user_input, "ok"))
NextWindow ==
    \/ SimpleAgentLongChat
    \/ AgentWithToolsLongChat
SpecWindow == Init /\ [][NextWindow]_vars

(***************************************************************************)
(* The LLM bridge step by step: chat() appends the user turn and calls     *)
(* invoke_model, the service answers or does not, and the answer ends the *)
(* call.  invoke_model is called with modelId, body and contentType only,  *)
(* and the client is built without a Config: nothing in the bridge ends    *)
(* the wait for a silent service.                                          *)
(***************************************************************************)
BridgeAgents == {"SimpleAgent", "AgentWithTools"}
BridgeChat(a, self, user_input, llm) ==
    IF a = "SimpleAgent" THEN SimpleAgent_chat(self, user_input, llm)
    ELSE AgentWithTools_chat(self, user_input, llm)
\* what invoke_model can do with a request: LLMOutcomes, or accept it and
\* never answer
ServiceOutcomes == LLMOutcomes \cup {"silent"}
\* chat() up to the call of invoke_model; what the service is going to do
\* with the request is settled when it is made
InvokeModel ==
    \E a \in BridgeAgents, user_input \in Smalltalk, service \in ServiceOutcomes :
        LET c == BridgeChat(a, Self(a), user_input, IF service = "silent" THEN "ok" ELSE service)
            pending == Observed("invoke_model", a, user_input, Len(conversation_history[a]), c)
        IN  /\ calls < MaxCalls
            /\ last.op \notin {"invoke_model", "waiting"}
            /\ c.request.made
            /\ calls' = calls + 1
            /\ conversation_history' = [conversation_history EXCEPT ![a] = Append(@, UserTurn(user_input))]
            /\ last' = IF service = "silent" THEN [pending EXCEPT !.op = "waiting", !.ret = NoResp]
                       ELSE pending
            /\ UNCHANGED <<operation_history, research_history, task_history, model_config, bedrock_client>>
\* invoke_model returns or raises, and chat() runs from there to its end: the
\* response of the bridge is appended to the history and returned
ServiceAnswers ==
    /\ last.op = "invoke_model"
    /\ conversation_history' =
           [conversation_history EXCEPT ![last.agent] = Append(@, Turn("assistant", last.ret))]
    /\ last' = [last EXCEPT !.op = "chat"]
    /\ UNCHANGED <<operation_history, research_history, task_history, model_config, bedrock_client, calls>>
NextBridge ==
    \/ InvokeModel
    \/ ServiceAnswers
\* a service that is going to answer does answer
SpecBridge == Init /\ [][NextBridge]_vars /\ WF_vars(ServiceAnswers)

(***************************************************************************)
(* ui/agent_runner.py: AgentRunner keeps the agents it has created in      *)
(* loaded_agents, under the agent type and the id() of the model_config     *)
(* object of the call.  In this specification the histories are functions  *)
(* of the keys of loaded_agents.                                           *)
(***************************************************************************)
RunnerTypes == {"SimpleAgent", "FileManagerAgent"}
\* the model_config objects the UI passes
ConfigObjects == {1, 2}
AgentKeys == RunnerTypes \X ConfigObjects
RunnerInputs(agent_type) ==
    IF agent_type = "SimpleAgent" THEN {<<>>, <<"H","e","l","l","o">>}
    ELSE {<<>>, <<"s","h","o","w"," ","f","i","l","e"," ","i","n","f","o"," ","a","b","o","u","t"," ","a",".","t","x","t">>, <<"G","o","o","d"," ","m","o","r","n","i","n","g">>}

\* the lists of the loaded agents as they would be if the instances of a
\* class held one list between them
histories_after_shared(histories, agent_key, history) ==
    [k \in DOMAIN histories \cup {agent_key} |-> IF k[1] = agent_key[1] THEN history ELSE histories[k]]
\* the lists of the loaded agents after the agent under agent_key has set its
\* own: __init__ and clear_history bind a new list to the instance, and
\* chat() appends to the list of self
histories_after(histories, agent_key, history) ==
    [k \in DOMAIN histories \cup {agent_key} |-> IF k = agent_key THEN history ELSE histories[k]]

InitRunner ==
    /\ conversation_history = [k \in {} |-> <<>>]
    /\ operation_history = [k \in {} |-> <<>>]
    /\ research_history = <<>>
    /\ task_history = <<>>
    /\ \E c \in Constructions :
        /\ model_config = [k \in AgentKeys |-> [provider |-> c.provider, model |-> c.model]]
        /\ bedrock_client = [k \in AgentKeys |-> c.client]
    /\ last = NothingObserved("init", "")
    /\ calls = 0

\* loaded_agents[agent_key], created by _create_agent when the key is new
LoadedAgent(agent_key) ==
    LET loaded == agent_key \in DOMAIN conversation_history
    IN  [name |-> agent_key[1],
         conversation_history |-> IF loaded THEN conversation_history[agent_key] ELSE <<>>,
         operation_history |-> IF loaded THEN operation_history[agent_key] ELSE <<>>,
         research_history |-> <<>>,
         task_history |-> <<>>,
         model_config |-> model_config[agent_key],
         bedrock_client |-> bedrock_client[agent_key],
         current_directory |-> Cwd]

\* an agent type _create_agent has no branch for
UnknownTypes == {"UnknownAgent"}
\* what the factory of an agent type does: FileManagerAgent.__init__ calls
\* Path.cwd(), which raises when the working directory is gone
FactoryOutcomes(agent_type) ==
    IF agent_type = "FileManagerAgent" THEN {"value", "FileNotFoundError"} ELSE {"value"}
\* AgentRunner._create_agent returns an agent: the type has a factory and the
\* factory raised no Exception
AgentRunner_create_agent(agent_type, factory) == agent_type \in RunnerTypes /\ factory = "value"

\* run_agent as it would be if it called chat() whatever the user input
AgentRunner_use_agent_always_chat(agent, user_input, llm) ==
    [op |-> "chat",
     c |-> IF agent.name = "SimpleAgent" THEN SimpleAgent_chat(agent, user_input, llm)
           ELSE FileManagerAgent_chat(agent, user_input, llm)]
\* run_agent once it has the agent: chat() when there is user input, else
\* get_status(), which reads the agent and changes nothing
AgentRunner_use_agent(agent, user_input, llm) ==
    IF user_input # <<>>
    THEN [op |-> "chat",
          c |-> IF agent.name = "SimpleAgent" THEN SimpleAgent_chat(agent, user_input, llm)
                ELSE FileManagerAgent_chat(agent, user_input, llm)]
    ELSE [op |-> "get_status",
          c |-> Chatted(agent.conversation_history, <<>>, Resp("agent_ready", <<>>), "", NoRule, NoRequest)]
\* "except Exception" of run_agent: an Exception becomes the error report
AgentRunner_caught(c) ==
    IF c.exc # "" /\ IsException(c.exc)
    THEN [c EXCEPT !.ret = Resp("error_running", <<>>), !.exc = ""]
    ELSE c

\* AgentRunner.run_agent: the agent is looked up or created; without an agent
\* the call ends with the failure message; else chat() is called on the agent
\* when there is user input, and get_status() when there is none.  The field
\* caught of the observation is what _create_agent caught.
RunAgent ==
    \E agent_type \in RunnerTypes \cup UnknownTypes, config \in ConfigObjects :
        \E user_input \in RunnerInputs(agent_type), factory \in FactoryOutcomes(agent_type) :
            LET agent_key == <<agent_type, config>>
                loaded == agent_key \in DOMAIN conversation_history
            IN  /\ calls < MaxCalls
                /\ calls' = calls + 1
                /\ IF ~loaded /\ ~AgentRunner_create_agent(agent_type, factory)
                   THEN /\ last' = [NothingObserved("create_agent", agent_key) EXCEPT
                                        !.input = user_input, !.ret = Resp("failed_to_create", <<>>)]
                                   @@ [caught |-> IF factory = "value" THEN "" ELSE factory]
                        /\ UNCHANGED <<conversation_history, operation_history>>
                   ELSE \E llm \in LLMChoices(agent_key) :
                            LET agent == LoadedAgent(agent_key)
                                used == AgentRunner_use_agent(agent, user_input, llm)
                                c == AgentRunner_caught(used.c)
                                before == Len(agent.conversation_history)
                            IN  /\ conversation_history' =
                                       histories_after(conversation_history, agent_key, c.history)
                                /\ operation_history' =
                                       histories_after(operation_history, agent_key,
                                                       agent.operation_history \o c.log)
                                /\ last' = Observed(used.op, agent_key, user_input, before, c)
                                           @@ [caught |-> ""]
                /\ UNCHANGED <<research_history, task_history, model_config, bedrock_client>>
\* clear_history() of a loaded agent
LoadedAgentClearHistory ==
    \E agent_key \in DOMAIN conversation_history :
        /\ calls < MaxCalls
        /\ calls' = calls + 1
        /\ conversation_history' = histories_after(conversation_history, agent_key, <<>>)
        /\ operation_history' = histories_after(operation_history, agent_key, <<>>)
        /\ last' = [NothingObserved("clear_history", agent_key) EXCEPT
                        !.before = Len(conversation_history[agent_key])]
        /\ UNCHANGED <<research_history, task_history, model_config, bedrock_client>>
NextRunner ==
    \/ RunAgent
    \/ LoadedAgentClearHistory
SpecRunner == InitRunner /\ [][NextRunner]_vars

(***************************************************************************)
(* The calculator tools called directly: CalculatorTool.calculate and      *)
(* MathTool.calculate_math applied to the expressions a caller passes.     *)
(***************************************************************************)
Expressions ==
    {<<"2"," ","+"," ","3"," ","*"," ","4">>, <<"1","/","0">>, <<"2"," ","+">>, <<"f","o","o","(","2",")">>, <<"a","b","s",".","_","_","c","l","a","s","s","_","_">>, <<"a","b","s",".","_","_","s","e","l","f","_","_",".","e","x","i","t","(",")">>,
     <<"a","b","s",".","_","_","s","e","l","f","_","_",".","_","_","i","m","p","o","r","t","_","_","(","'","o","s","'",")",".","g","e","t","c","w","d","(",")">>, <<"_","_","i","m","p","o","r","t","_","_","(","'","o","s","'",")",".","s","y","s","t","e","m","(","'","l","s","'",")">>, <<"s","q","r","t","(","1","6",")">>,
     <<"(","1"," ","+"," ","2",")"," ","*"," ","3">>, <<"p","i">>, <<"m","a","x","(","1",","," ","2",")">>, <<"1","0"," ","/"," ","4">>, <<"a","b","s","(","-","5",")">>, <<"1","(","2",")">>, <<"a","b","s",".","f","o","o">>,
     <<"s","q","r","t","(","2",","," ","3",")">>, <<"p","o","w","(","2",","," ","3",")">>, <<"-","3"," ","+"," ","2">>, <<"(",")">>}
\* what a call into an object of the host does: it returns, raises an
\* Exception, or ends the interpreter
HostOutcomes == {"value", "OSError", "SystemExit"}

\* the call of a tool and what came of it; the tools are static methods and
\* are called on their own, before any chat of an agent
ToolObserved(op, tool, expression, out) ==
    [NothingObserved(op, tool) EXCEPT !.input = expression, !.ret = out.ret, !.exc = out.exc]

CalculatorToolCalculate ==
    \E expression \in Expressions, host \in HostOutcomes :
        /\ calls = 0
        /\ last' = ToolObserved("calculate", "CalculatorTool", expression,
                                CalculatorTool_calculate(expression, host))
        /\ UNCHANGED <<conversation_history, operation_history, research_history, task_history,
                       model_config, bedrock_client, calls>>

MathToolCalculateMath ==
    \E expression \in Expressions, host \in HostOutcomes :
        /\ calls = 0
        /\ last' = ToolObserved("calculate_math", "MathTool", expression,
                                MathTool_calculate_math(expression, host))
        /\ UNCHANGED <<conversation_history, operation_history, research_history, task_history,
                       model_config, bedrock_client, calls>>

\* A first chat() of a newly constructed agent, from a pool of utterances of
\* its own: the agent is then left alone.
FirstChatStep(a, user_input, c) ==
    /\ calls = 0
    /\ ChatStep(a, user_input, c)
    /\ UNCHANGED <<operation_history, research_history, task_history>>

\* requests for a calculation, each with one arithmetic expression over
\* integers
Calculations ==
    {<<"C","a","l","c","u","l","a","t","e"," ","1","5"," ","*"," ","8">>, <<"C","a","l","c","u","l","a","t","e"," ","2","5"," ","*"," ","1","7"," ","+"," ","8","3">>, <<"C","o","m","p","u","t","e"," ","(","1","5"," ","+"," ","3",")"," ","/"," ","2">>,
     <<"C","a","l","c","u","l","a","t","e"," ","1","5"," ","*"," ","8"," ","(","p","l","e","a","s","e",")">>}
AgentWithToolsCalculation ==
    \E user_input \in Calculations :
        FirstChatStep("AgentWithTools", user_input,
                      AgentWithTools_chat(Self("AgentWithTools"), user_input, "ok"))

\* the paths a caller asks the file tools to read
Paths ==
    {<<"a",".","t","x","t">>, <<"R","E","A","D","M","E",".","m","d">>, <<"d","a","t","a",".","b","i","n">>, <<"b","i","g",".","l","o","g">>, <<"m","i","s","s","i","n","g",".","t","x","t">>, <<"b">>,
     <<".",".","/",".",".","/","e","t","c","/","p","a","s","s","w","d">>, <<"/","e","t","c","/","p","a","s","s","w","d">>}
\* FileOperationsTool.read_file of file_manager_agent.py, called directly
FileManagerReadFile ==
    \E filepath \in Paths, max_lines \in {"50", "inf"} :
        /\ calls = 0
        /\ last' = ToolObserved("read_file", "FileManagerAgent", filepath,
                                FM_FileOperationsTool_read_file(filepath, max_lines))
        /\ UNCHANGED <<conversation_history, operation_history, research_history, task_history,
                       model_config, bedrock_client, calls>>
\* FileOperationsTool.read_file of agent_with_tools.py, called directly
AgentWithToolsReadFile ==
    \E filepath \in Paths :
        /\ calls = 0
        /\ last' = ToolObserved("read_file", "AgentWithTools", filepath,
                                AWT_FileOperationsTool_read_file(filepath))
        /\ UNCHANGED <<conversation_history, operation_history, research_history, task_history,
                       model_config, bedrock_client, calls>>

\* the utterances whose path FileManagerAgent extracts
PathRequests ==
    {<<"r","e","a","d"," ","f","i","l","e"," ","\"","m","y"," ","n","o","t","e","s",".","t","x","t","\""," ","o","r"," ","d","a","t","a",".","c","s","v">>, <<"s","h","o","w"," ","f","i","l","e"," ","i","n","f","o"," ","a","b","o","u","t"," ","a",".","t","x","t">>, <<"l","i","s","t"," ","f","i","l","e","s"," ","i","n"," ","s","r","c","/","a","p","p">>,
     <<"o","p","e","n"," ","f","i","l","e"," ","n","o","t","e","s",".">>, <<"r","e","a","d"," ","f","i","l","e">>, <<"l","i","s","t"," ","f","i","l","e","s"," ","i","n"," ",".","/","d","o","c","s","/"," ","a","n","d"," ","r","e","p","o","r","t",".","p","d","f">>, <<"r","e","a","d"," ","f","i","l","e"," ","\"","\"">>,
     <<"o","p","e","n"," ",".","h","i","d","d","e","n">>, <<"r","e","a","d"," ","f","i","l","e"," ","\"",".",".","/",".",".","/","e","t","c","/","p","a","s","s","w","d","\"">>, <<"c","a","t"," ","d","o","c","s","/","v","1",".","2","/","n","o","t","e","s">>}
\* FileManagerAgent._extract_path applied to an utterance
FileManagerAgentExtractPath ==
    \E user_input \in PathRequests :
        /\ calls = 0
        /\ last' = ToolObserved("extract_path", "FileManagerAgent", user_input,
                                [ret |-> FileManagerAgent_extract_path(user_input), exc |-> ""])
        /\ UNCHANGED <<conversation_history, operation_history, research_history, task_history,
                       model_config, bedrock_client, calls>>

\* the utterances whose text CustomToolAgent extracts
TextRequests ==
    {<<"a","n","a","l","y","z","e"," ","t","e","x","t",":"," ","\"","h","e","l","l","o"," ","w","o","r","l","d","\"">>, <<"A","n","a","l","y","z","e"," ","t","e","x","t"," ","\"","f","i","r","s","t"," ","s","p","a","n","\""," ","a","n","d"," ","\"","s","e","c","o","n","d","\"">>, <<"a","n","a","l","y","z","e"," ","t","h","i","s"," ","t","e","x","t",":"," ","\"","\"">>,
     <<"t","e","x","t"," ","a","n","a","l","y","s","i","s"," ","o","f"," ","\"","u","n","b","a","l","a","n","c","e","d">>, <<"a","n","a","l","y","z","e"," ","t","e","x","t"," ","a","n","a","l","y","z","e",":"," ","s","o","m","e"," ","w","o","r","d","s">>, <<"G","o","o","d"," ","m","o","r","n","i","n","g">>,
     <<"e","x","t","r","a","c","t"," ","k","e","y","w","o","r","d","s"," ","\"","a","l","p","h","a"," ","b","e","t","a","\"">>, <<"w","h","a","t"," ","d","o","e","s"," ","\"","h","e","l","l","o","\""," ","m","e","a","n">>}
CustomToolAgentTextAnalysis ==
    \E user_input \in TextRequests :
        FirstChatStep("CustomToolAgent", user_input,
                      CustomToolAgent_chat(Self("CustomToolAgent"), user_input, "ok"))

\* tasks for MultiAgentSystem: square roots, expressions with two operators,
\* and tasks that trigger each subset of its specialists
SquareRootTasks == {<<"C","a","l","c","u","l","a","t","e"," ","t","h","e"," ","s","q","u","a","r","e"," ","r","o","o","t"," ","o","f"," ","1","4","4"," ","a","n","d"," ","a","n","a","l","y","z","e"," ","t","h","e"," ","r","e","s","u","l","t">>, <<"c","o","m","p","u","t","e"," ","s","q","r","t","(","1","4","4",")">>}
ExpressionTasks == {<<"W","h","a","t"," ","i","s"," ","2","5"," ","*"," ","4","7"," ","+"," ","1","0","0","?">>, <<"c","a","l","c","u","l","a","t","e"," ","2"," ","+"," ","3"," ","*"," ","4">>}
TaskRequests ==
    {<<"G","o","o","d"," ","m","o","r","n","i","n","g">>, <<"c","a","l","c","u","l","a","t","e"," ","2"," ","+"," ","3">>, <<"r","e","v","i","e","w"," ","m","y"," ","w","r","i","t","i","n","g">>, <<"m","a","k","e"," ","a"," ","j","s","o","n">>,
     <<"c","a","l","c","u","l","a","t","e"," ","2"," ","+"," ","3"," ","a","n","d"," ","a","n","a","l","y","z","e"," ","\"","g","o","o","d"," ","w","o","r","k","\"">>, <<"c","o","m","p","u","t","e"," ","4"," ","*"," ","5"," ","a","s"," ","a"," ","t","a","b","l","e">>,
     <<"a","n","a","l","y","z","e"," ","\"","g","r","e","a","t"," ","p","r","o","d","u","c","t","\""," ","a","s"," ","a"," ","l","i","s","t">>, <<"c","a","l","c","u","l","a","t","e"," ","6"," ","/"," ","3",","," ","a","n","a","l","y","z","e"," ","\"","n","i","c","e"," ","d","a","y","\""," ","a","n","d"," ","f","o","r","m","a","t"," ","a","s"," ","j","s","o","n">>}
    \cup SquareRootTasks \cup ExpressionTasks
MultiAgentSystemTask ==
    \E user_input \in TaskRequests :
        /\ calls = 0
        /\ MultiAgentSystemChatStep(user_input, MultiAgentSystem_chat(Self("MultiAgentSystem"), user_input))

\* the texts handed to the text analysis tools
Texts == {<<>>, <<" ">>, <<"H","i">>, <<"h","e","l","l","o"," ","w","o","r","l","d">>, <<"G","o","o","d"," ","w","o","r","k","."," ","W","e","l","l"," ","d","o","n","e",".">>}
TextAnalyzerToolAnalyzeText ==
    \E text \in Texts :
        /\ calls = 0
        /\ last' = ToolObserved("analyze_text", "TextAnalyzerTool", text, TextAnalyzerTool_analyze_text(text))
        /\ UNCHANGED <<conversation_history, operation_history, research_history, task_history,
                       model_config, bedrock_client, calls>>
TextAnalysisToolAnalyzeTextContent ==
    \E text \in Texts :
        /\ calls = 0
        /\ last' = ToolObserved("analyze_text_content", "TextAnalysisTool", text,
                                TextAnalysisTool_analyze_text_content(text))
        /\ UNCHANGED <<conversation_history, operation_history, research_history, task_history,
                       model_config, bedrock_client, calls>>

\* requests for a square root or a power, with a calculator keyword and
\* without an operator character
AdvancedMath ==
    {<<"C","a","n"," ","y","o","u"," ","c","a","l","c","u","l","a","t","e"," ","t","h","e"," ","s","q","u","a","r","e"," ","r","o","o","t"," ","o","f"," ","1","6","9","?">>, <<"c","o","m","p","u","t","e"," ","s","q","r","t"," ","1","6">>, <<"c","a","l","c","u","l","a","t","e"," ","2"," ","p","o","w","e","r"," ","1","0">>,
     <<"S","o","l","v","e"," ","2"," ","^"," ","1","0">>}
AgentWithToolsAdvancedMath ==
    \E user_input \in AdvancedMath :
        FirstChatStep("AgentWithTools", user_input,
                      AgentWithTools_chat(Self("AgentWithTools"), user_input, "ok"))

\* questions about the current directory
DirectoryQuestions ==
    {<<"p","w","d">>, <<"w","h","e","r","e"," ","a","m"," ","i">>, <<"W","h","e","r","e"," ","a","m"," ","I","?"," ","W","h","a","t","'","s"," ","m","y"," ","c","u","r","r","e","n","t"," ","d","i","r","e","c","t","o","r","y","?">>, <<"W","h","a","t"," ","i","s"," ","t","h","e"," ","c","u","r","r","e","n","t"," ","d","i","r","e","c","t","o","r","y">>}
FileManagerAgentDirectoryQuestion ==
    \E user_input \in DirectoryQuestions :
        /\ calls = 0
        /\ FileManagerAgentChatStep(user_input,
               FileManagerAgent_chat(Self("FileManagerAgent"), user_input, "ok"))

\* requests of AgentWithTools to read a named file
ReadRequests ==
    {<<"r","e","a","d"," ","f","i","l","e"," ","a",".","t","x","t">>, <<"s","h","o","w"," ","f","i","l","e"," ","R","E","A","D","M","E",".","m","d">>, <<"o","p","e","n"," ","f","i","l","e"," ","d","a","t","a",".","b","i","n">>, <<"P","l","e","a","s","e"," ","o","p","e","n"," ","f","i","l","e"," ","a",".","t","x","t"," ","n","o","w">>}
AgentWithToolsReadRequest ==
    \E user_input \in ReadRequests :
        FirstChatStep("AgentWithTools", user_input,
                      AgentWithTools_chat(Self("AgentWithTools"), user_input, "ok"))

\* utterances that give the text after a marker, without quotes, with the
\* marker in lower and in other letter cases
MarkerRequests ==
    {<<"a","n","a","l","y","z","e"," ","t","e","x","t"," ","a","n","a","l","y","z","e",":"," ","s","o","m","e"," ","w","o","r","d","s">>, <<"a","n","a","l","y","z","e"," ","t","e","x","t"," ","A","n","a","l","y","z","e",":"," ","s","o","m","e"," ","w","o","r","d","s">>,
     <<"h","a","s","h"," ","o","f"," ","h","a","s","h",":"," ","a","b","c">>, <<"h","a","s","h"," ","o","f"," ","H","A","S","H",":"," ","a","b","c">>}
CustomToolAgentMarker ==
    \E user_input \in MarkerRequests :
        FirstChatStep("CustomToolAgent", user_input,
                      CustomToolAgent_chat(Self("CustomToolAgent"), user_input, "ok"))

NextTools ==
    \/ CalculatorToolCalculate
    \/ MathToolCalculateMath
    \/ AgentWithToolsCalculation
    \/ FileManagerReadFile
    \/ AgentWithToolsReadFile
    \/ FileManagerAgentExtractPath
    \/ CustomToolAgentTextAnalysis
    \/ MultiAgentSystemTask
    \/ TextAnalyzerToolAnalyzeText
    \/ TextAnalysisToolAnalyzeTextContent
    \/ AgentWithToolsAdvancedMath
    \/ FileManagerAgentDirectoryQuestion
    \/ AgentWithToolsReadRequest
    \/ CustomToolAgentMarker

SpecTools == Init /\ [][NextTools]_vars

(***************************************************************************)
(* Properties of chat(), read off the last call a client made.             *)
(***************************************************************************)
Chatting == last.op = "chat"
\* a live provider, in the words of the agents' documentation: a Bedrock
\* client and the provider "AWS Bedrock"
Live(a) == bedrock_client[a] /\ model_config[a].provider = "AWS Bedrock"

\* C1: one chat() call lengthens the conversation history by exactly two
\* turns, the user turn and then the assistant turn holding the returned
\* text; so every history has an even number of turns with strictly
\* alternating roles.
ChatAppendsTwoTurns ==
    /\ Chatting =>
        /\ Len(conversation_history[last.agent]) = last.before + 2
        /\ conversation_history[last.agent][last.before + 1] = UserTurn(last.input)
        /\ conversation_history[last.agent][last.before + 2] = Turn("assistant", last.ret)
    /\ \A a \in Agents :
        /\ Len(conversation_history[a]) % 2 = 0
        /\ \A i \in 1..Len(conversation_history[a]) :
              conversation_history[a][i].role = IF i % 2 = 1 THEN "user" ELSE "assistant"

\* C2: chat() returns a response and never propagates an exception to its
\* caller, whatever the router, the tool or the LLM call raises.
ChatNeverRaises == Chatting => last.exc = "" /\ last.ret # NoResp
\* a chat() whose router raised
ChatCaughtRouterError ==
    Chatting /\ last.rule # "none" /\ last.tool = "" /\ last.ret.kind = "chat_error"

\* C3: the file tools never return the contents or the listing of a path
\* outside the sandbox root (the directory the agent works in): no response
\* carrying contents, a listing, file details or search results is about a
\* path outside it.
FileKinds == {"file_content", "listing", "file_info", "search_results"}
FilesStayInSandbox ==
    Chatting /\ last.agent \in {"FileManagerAgent", "AgentWithTools"} /\ last.ret.kind \in FileKinds
        => Inside(Cwd, last.ret.path)

\* the restricted grammar of the calculators: numbers, the four arithmetic
\* operators, parentheses, and the names of the allow-list
InGrammar(expression) ==
    \A i \in 1..Len(Tokenize(expression)) :
        LET tok == Tokenize(expression)[i]
        IN  \/ tok.t \in {"num", "lp", "rp", "comma"}
            \/ tok.t = "op" /\ tok.s \in {<<"+">>, <<"-">>, <<"*">>, <<"/">>}
            \/ tok.t = "name" /\ tok.s \in safe_dict.funcs \cup safe_dict.consts
CalculatorCalled == last.op \in {"calculate", "calculate_math"}
\* the result of the calculator call is a success carrying a value
CalculatorSucceeded ==
    /\ last.exc = ""
    /\ IF last.op = "calculate" THEN last.ret.kind = "calc_result" ELSE last.ret.success
CalculatorFailed ==
    /\ last.exc = ""
    /\ IF last.op = "calculate" THEN last.ret.kind # "calc_result" ELSE ~last.ret.success
CalculatorValue == IF last.op = "calculate" THEN last.ret.val ELSE last.ret.result

\* C4: the calculator tools evaluate only expressions of the restricted
\* grammar: an expression using anything else (a name outside the allow-list,
\* attribute access, a string, __import__) yields a failure result.
OnlyRestrictedGrammar ==
    CalculatorCalled /\ ~InGrammar(last.input) => CalculatorFailed

\* C5: both calculator tools return a result and never raise: "1/0", a
\* malformed expression and an unknown function each give a failure result,
\* and "2 + 3 * 4" gives the value 14.
CalculatorsNeverRaise ==
    CalculatorCalled =>
        /\ last.exc = ""
        /\ last.input \in {<<"1","/","0">>, <<"2"," ","+">>, <<"f","o","o","(","2",")">>} => CalculatorFailed
        /\ last.input = <<"2"," ","+"," ","3"," ","*"," ","4">> => CalculatorSucceeded /\ CalculatorValue = NumV(14, 1)

\* the rules of each router in the order they are declared, with their
\* trigger phrases and the tools a rule may invoke
Rule(rule, words, tools) == [rule |-> rule, words |-> words, tools |-> tools]
Rules(a) ==
    CASE a = "AgentWithTools" ->
            <<Rule("calculator", AWT_calculator_words, {"calculate", "advanced_math"}),
              Rule("web_search", AWT_search_words, {"search"}),
              Rule("weather", AWT_weather_words, {"get_weather"}),
              Rule("list_files", AWT_list_words, {"list_files"}),
              Rule("read_file", AWT_read_words, {"read_file"})>>
      [] a = "FileManagerAgent" ->
            <<Rule("list", FMA_list_words, {"list_directory"}),
              Rule("read", FMA_read_words, {"read_file"}),
              Rule("info", FMA_info_words, {"file_info"}),
              Rule("search", FMA_search_words, {"search_files"}),
              Rule("current_directory", FMA_pwd_words, {})>>
      [] a = "WebResearchAgent" ->
            <<Rule("research", WRA_research_words, {"conduct_research"}),
              Rule("compare", WRA_compare_words, {"conduct_comparison_research"}),
              Rule("trends", WRA_trend_words, {"conduct_trend_analysis"})>>
      [] a = "CustomToolAgent" ->
            <<Rule("text_analysis", CTA_text_words, {"analyze_text"}),
              Rule("keywords", CTA_keyword_words, {"extract_keywords"}),
              Rule("csv", CTA_csv_words, {"process_csv_data"}),
              Rule("statistics", CTA_stats_words, {"generate_summary_stats"}),
              Rule("code", CTA_code_words, {"analyze_code"}),
              Rule("hash", CTA_hash_words, {"generate_hashes"})>>
\* the positions of the rules of agent a that the utterance triggers
Triggered(a, user_input) ==
    {i \in 1..Len(Rules(a)) : contains_any(lower(user_input), Rules(a)[i].words)}
Earliest(S) == CHOOSE i \in S : \A j \in S : i <= j

\* C6: when the lower-cased utterance contains trigger phrases of one or more
\* rules of a router, the rule declared earliest among them is the one that
\* runs: it is the rule selected, and only its tool is invoked.
FirstDeclaredRuleWins ==
    Chatting /\ last.agent \in RouterAgents /\ Triggered(last.agent, last.input) # {}
        => LET first == Rules(last.agent)[Earliest(Triggered(last.agent, last.input))]
           IN  last.rule = first.rule /\ last.tool \in first.tools \cup {""}
\* a chat() whose utterance triggers two rules or more
TwoRulesTriggered ==
    /\ Chatting /\ last.agent \in RouterAgents
    /\ Cardinality(Triggered(last.agent, last.input)) >= 2
    /\ last.tool # ""

\* the router of agent a applied by the object self
Route(a, self, user_input) ==
    CASE a = "AgentWithTools" -> AgentWithTools_check_and_use_tools(self, user_input, "value")
      [] a = "CustomToolAgent" -> CustomToolAgent_check_and_use_custom_tools(self, user_input)
      [] a = "WebResearchAgent" -> WebResearchAgent_handle_research_request(self, user_input)
      [] a = "FileManagerAgent" -> FileManagerAgent_handle_file_operations(self, user_input)
\* the object self with nothing said and nothing logged
Fresh(self) ==
    [self EXCEPT !.conversation_history = <<>>, !.operation_history = <<>>,
                 !.research_history = <<>>, !.task_history = <<>>]

\* C7: intent selection is a function of the utterance alone: routing the
\* utterance of the last chat() again, on the histories that call left
\* behind and on empty histories, selects the rule that call selected, and
\* the task analysis of MultiAgentSystem is the same on both.
RoutingIgnoresHistory ==
    /\ Chatting /\ last.agent \in RouterAgents =>
        /\ Route(last.agent, Self(last.agent), last.input).rule = last.rule
        /\ Route(last.agent, Fresh(Self(last.agent)), last.input).rule = last.rule
    /\ Chatting /\ last.agent = "MultiAgentSystem" =>
        MultiAgentSystem_analyze_task(Self(last.agent), last.input)
            = MultiAgentSystem_analyze_task(Fresh(Self(last.agent)), last.input)
\* a chat() routed to a rule on a history that already held turns
RoutedOnLaterTurn ==
    Chatting /\ last.agent \in RouterAgents /\ last.before > 0 /\ last.rule # "none"

\* the utterances that name a capability and nothing else, with the
\* clarification prompt of that capability
BareRequests ==
    [a \in RouterAgents |->
        CASE a = "AgentWithTools" -> [said |-> <<"r","e","a","d"," ","f","i","l","e">>, prompt |-> "read_file_prompt"]
          [] a = "FileManagerAgent" -> [said |-> <<"r","e","a","d"," ","f","i","l","e">>, prompt |-> "read_file_prompt"]
          [] a = "CustomToolAgent" -> [said |-> <<"e","x","t","r","a","c","t"," ","k","e","y","w","o","r","d","s">>, prompt |-> "keywords_prompt"]
          [] a = "WebResearchAgent" -> [said |-> <<"r","e","s","e","a","r","c","h">>, prompt |-> "research_prompt"]]

\* C8: when a rule matches but the utterance lacks the parameter of its tool
\* (no file name after 'read file', no quoted text after 'extract keywords',
\* no topic after 'research'), chat() answers with the clarification prompt
\* of the capability, the tool is not invoked, and the call does not fail.
MissingParameterIsPrompted ==
    Chatting /\ last.agent \in RouterAgents
             /\ lower(strip(last.input)) = BareRequests[last.agent].said
        => /\ last.exc = ""
           /\ last.tool = ""
           /\ last.ret.kind = BareRequests[last.agent].prompt

\* C9: in the four agents with a router, a chat() call in which a routing
\* rule matched makes no LLM request, even with a live Bedrock client.
NoRequestWhenRouted ==
    Chatting /\ last.agent \in RouterAgents /\ last.rule # "none" => ~last.request.made
\* a rule matched in an agent with a live provider
RoutedWithLiveProvider ==
    Chatting /\ last.agent \in RouterAgents /\ last.rule # "none" /\ Live(last.agent)

CannedKinds ==
    {"canned_greeting", "canned_how_are_you", "canned_capabilities", "canned_farewell",
     "canned_strands", "canned_weather", "canned_calculate", "canned_default"}

\* C10: when no routing rule matches and no live provider is configured (no
\* Bedrock client, or another provider), chat() returns the canned text of
\* the agent and makes no LLM request.
CannedWithoutProvider ==
    Chatting /\ last.agent \in RouterAgents \cup {"SimpleAgent"}
             /\ last.rule = "none" /\ ~Live(last.agent)
        => last.ret.kind \in CannedKinds /\ ~last.request.made
\* an unrouted chat() of an agent whose provider is AWS Bedrock but which has
\* no client
UnroutedWithoutClient ==
    /\ Chatting /\ last.agent \in RouterAgents \cup {"SimpleAgent"}
    /\ last.rule = "none" /\ ~bedrock_client[last.agent]
    /\ model_config[last.agent].provider = "AWS Bedrock"
    /\ last.ret.kind \in CannedKinds

\* the value of the arithmetic expression in each request for a calculation
ValueAsked(user_input) ==
    CASE user_input = <<"C","a","l","c","u","l","a","t","e"," ","1","5"," ","*"," ","8">> -> NumV(120, 1)
      [] user_input = <<"C","a","l","c","u","l","a","t","e"," ","2","5"," ","*"," ","1","7"," ","+"," ","8","3">> -> NumV(508, 1)
      [] user_input = <<"C","o","m","p","u","t","e"," ","(","1","5"," ","+"," ","3",")"," ","/"," ","2">> -> NumV(9, 1)
      [] user_input = <<"C","a","l","c","u","l","a","t","e"," ","1","5"," ","*"," ","8"," ","(","p","l","e","a","s","e",")">> -> NumV(120, 1)

\* C11: AgentWithTools.chat on an utterance with a calculator keyword and one
\* arithmetic expression over integers answers with the value of that
\* expression: 'Calculate 15 * 8' gives 120, 'Calculate 25 * 17 + 83' 508.
CalculationIsAnswered ==
    Chatting /\ last.agent = "AgentWithTools" /\ last.input \in Calculations
        => /\ last.ret.kind = "calc_result"
           /\ last.ret.val = ValueAsked(last.input)

\* get_conversation_history: a copy of the turns of agent a
get_conversation_history(a) == conversation_history[a]

\* C12: after any sequence of chat() calls, clear_history() followed by
\* get_conversation_history() returns an empty sequence, for every agent that
\* has the two operations.
ClearedHistoryIsEmpty ==
    last.op = "clear_history" => get_conversation_history(last.agent) = <<>>
\* a clear_history() of an agent whose history held turns
ClearedAfterChat == last.op = "clear_history" /\ last.before > 0

\* C13: read_file never returns the content of a file larger than 1 MiB nor
\* of a file that is not valid UTF-8 text, in FileManagerAgent's and in
\* AgentWithTools' file tool: such a file is rejected with a message.
ReadsOnlySmallText ==
    last.op = "read_file" /\ exists(resolve(last.input)) /\ is_file(resolve(last.input))
                          /\ (~Entry(resolve(last.input)).utf8 \/ Entry(resolve(last.input)).size > MiB)
        => last.ret.kind \in {"read_file_too_large", "read_binary_or_unsupported"}

\* the first whitespace-separated word with a dot in it that does not start
\* with a dot
DottedWord(user_input) ==
    LET words == split_ws(user_input)
        dotted == {i \in 1..Len(words) : contains(words[i], <<".">>) /\ Head(words[i]) # "."}
    IN  IF dotted = {} THEN None ELSE Some(words[Earliest(dotted)])
\* what each of the four rules of path extraction finds in the utterance, in
\* the order of the rules
PathRules(user_input) ==
    <<search_quoted(user_input), search_with(user_input, FileMatchAt),
      search_with(user_input, PathMatchAt), DottedWord(user_input)>>
Succeeding(rules) == {i \in 1..Len(rules) : rules[i].some}

\* C14: path extraction returns the match of the first rule that succeeds in
\* the order quoted string, token with a file extension, token containing
\* '/', bare word containing a dot: a double-quoted span is returned whenever
\* one is present, and no path is returned only when no rule matches.
FirstPathRuleWins ==
    last.op = "extract_path" =>
        LET rules == PathRules(last.input)
        IN  /\ Succeeding(rules) = {} <=> ~last.ret.some
            /\ Succeeding(rules) # {} => last.ret = rules[Earliest(Succeeding(rules))]
            /\ rules[1].some => last.ret = rules[1]
\* an extraction from an utterance with a quoted span and a token with a file
\* extension
QuotedAndExtension ==
    /\ last.op = "extract_path"
    /\ PathRules(last.input)[1].some /\ PathRules(last.input)[2].some
    /\ PathRules(last.input)[1] # PathRules(last.input)[2]

\* the positions of the double quotes of a string, and the content between
\* the first two of them
QuotesOf(s) == {i \in 1..Len(s) : s[i] = "\""}
FirstQuotedSpan(s) ==
    LET q1 == Earliest(QuotesOf(s))
        q2 == Earliest(QuotesOf(s) \ {q1})
    IN  SubSeq(s, q1 + 1, q2 - 1)
TextRuleTriggered(user_input) == contains_any(lower(user_input), CTA_text_words)

\* C15: when an utterance matching the text-analysis rule of CustomToolAgent
\* has a double-quoted span, the analyzer is handed exactly the content of the
\* first such span; on an utterance with no quotes and no trigger phrase the
\* analyzer is not called.
AnalyzerGetsFirstQuotedSpan ==
    Chatting /\ last.agent = "CustomToolAgent" =>
        /\ TextRuleTriggered(last.input) /\ Cardinality(QuotesOf(last.input)) >= 2
               => last.tool = "analyze_text" /\ last.arg = FirstQuotedSpan(last.input)
        /\ QuotesOf(last.input) = {} /\ ~TextRuleTriggered(last.input)
               /\ ~contains(lower(last.input), <<"a","n","a","l","y","z","e",":">>)
               => last.tool # "analyze_text"
\* a text analysis of an utterance with two quoted spans
AnalyzedFirstOfTwoSpans ==
    /\ Chatting /\ last.agent = "CustomToolAgent" /\ TextRuleTriggered(last.input)
    /\ Cardinality(QuotesOf(last.input)) >= 4
    /\ last.tool = "analyze_text"

\* the specialists an utterance triggers, in the order math, text analysis,
\* formatting
Specialists == <<"Math Specialist", "Text Analysis Specialist", "Data Formatting Specialist">>
SpecialistKeywords == <<math_keywords, text_keywords, format_keywords>>
TriggeredSpecialists(user_input) ==
    {i \in 1..3 : contains_any(lower(user_input), SpecialistKeywords[i])}
\* the specialist sections of a response: those before the n-th section
SpecialistSections(parts) == {i \in 1..Len(parts) : parts[i].agent # "General Coordination"}
ResultOf(part) == specialist_result(part.agent, part.text, part.lines)

\* C16: the specialist sections of a MultiAgentSystem response are those of
\* the triggered specialists in the order math, text analysis, formatting,
\* and the formatting specialist receives the results of the sections before
\* it, in their order.
SectionsInFixedOrder ==
    Chatting /\ last.agent = "MultiAgentSystem" /\ last.ret.kind = "multi_agent_response" =>
        LET parts == last.ret.parts
            shown == SpecialistSections(parts)
            rank(i) == CHOOSE k \in 1..3 : Specialists[k] = parts[i].agent
        IN  /\ \A i \in shown : parts[i].agent \in {Specialists[k] : k \in 1..3}
            /\ {rank(i) : i \in shown} = TriggeredSpecialists(last.input)
            /\ \A i, j \in shown : i < j => rank(i) < rank(j)
            /\ \A i \in shown : parts[i].agent = "Data Formatting Specialist" =>
                   /\ Len(parts[i].received) = i - 1
                   /\ \A j \in 1..(i - 1) : parts[i].received[j] = ResultOf(parts[j])
\* a response with the three specialist sections
AllThreeSpecialists ==
    /\ Chatting /\ last.agent = "MultiAgentSystem"
    /\ TriggeredSpecialists(last.input) = {1, 2, 3}
    /\ Len(last.ret.parts) = 3

\* the history an agent had when the last chat() made its request: the turns
\* before the call and the user turn of the call
HistoryAtRequest == SubSeq(conversation_history[last.agent], 1, last.before + 1)
\* the turns of the history in the request: AgentWithTools puts the system
\* message in front of them
HistorySent ==
    IF last.agent = "SimpleAgent" THEN last.request.messages ELSE Tail(last.request.messages)
ClaimedWindow(a) == IF a = "SimpleAgent" THEN 10 ELSE 6
Shorter(m, n) == IF m < n THEN m ELSE n

\* C17: the request of the LLM bridge of SimpleAgent and AgentWithTools
\* carries the current utterance and, of the history, its most recent turns
\* and never more than 10 (SimpleAgent) or 6 (AgentWithTools) of them.
RequestWindowIsBounded ==
    Chatting /\ last.agent \in {"SimpleAgent", "AgentWithTools"} /\ last.request.made =>
        IF last.request.claude
        THEN /\ Len(HistorySent) = Shorter(ClaimedWindow(last.agent), Len(HistoryAtRequest))
             /\ HistorySent = SubSeq(HistoryAtRequest, Len(HistoryAtRequest) - Len(HistorySent) + 1,
                                     Len(HistoryAtRequest))
             /\ IF last.agent = "SimpleAgent"
                THEN HistorySent[Len(HistorySent)] = UserTurn(last.input)
                ELSE Head(last.request.messages) = SystemMessage(last.input)
        ELSE last.request.messages = <<>> /\ last.request.inputText = last.input
\* a request of SimpleAgent made with a history longer than its window
RequestFromLongHistory ==
    /\ Chatting /\ last.agent = "SimpleAgent" /\ last.request.made /\ last.request.claude
    /\ Len(HistoryAtRequest) > ClaimedWindow("SimpleAgent")

\* a chat() call that is inside invoke_model
InBridge == last.op \in {"invoke_model", "waiting"}

\* C18: every chat() call that reaches the LLM bridge eventually returns,
\* also when the completion service never answers.
EveryChatReturns == InBridge ~> Chatting

\* the loaded agents other than the one the step acts on
OtherAgents == {k \in DOMAIN conversation_history : k # last'.agent}

EmptyTextIsAnalyzed ==
    last.op \in {"analyze_text", "analyze_text_content"} /\ last.input = <<>> =>
        /\ last.ret.kind \in {"text_analysis", "text_content_analysis"}
        /\ last.ret.val = NumV(0, 1)
        /\ last.ret.parts = <<0>>

\* the loaded agents of the type and with a configuration equal to that of
\* the agent under agent_key
SameTypeAndConfiguration(agent_key) ==
    {k \in DOMAIN conversation_history :
        k[1] = agent_key[1] /\ model_config[k] = model_config[agent_key]}

\* C21: AgentRunner holds at most one agent per agent type and configuration:
\* a call with a type and a configuration equal to those of an earlier call
\* runs on the agent of that call, whose history it continues.
OneAgentPerConfiguration ==
    \A k \in DOMAIN conversation_history : SameTypeAndConfiguration(k) = {k}

AsksSquareRoot(user_input) ==
    contains(lower(user_input), <<"s","q","r","t">>) \/ contains(lower(user_input), <<"s","q","u","a","r","e"," ","r","o","o","t">>)

\* C22: AgentWithTools answers a request with a calculator keyword and no
\* operator character that names a square root and a number with the
\* square-root result, and one that names a power and two numbers with the
\* power result.
AdvancedMathIsAnswered ==
    Chatting /\ last.agent = "AgentWithTools" /\ last.input \in AdvancedMath =>
        /\ last.tool = "advanced_math"
        /\ last.ret.kind = IF AsksSquareRoot(last.input) THEN "math_sqrt" ELSE "math_power"

\* C23: FileManagerAgent answers an utterance containing 'current directory',
\* 'where am i' or 'pwd' with the current directory and records no file
\* operation for it.
DirectoryQuestionIsAnswered ==
    Chatting /\ last.agent = "FileManagerAgent" /\ contains_any(lower(last.input), FMA_pwd_words)
             /\ last.before = 0 =>
        /\ last.ret.kind = "current_directory"
        /\ last.tool = ""
        /\ operation_history = <<>>

\* the word that follows the word 'file'
NameAfterFile(user_input) ==
    LET words == split_ws(user_input)
    IN  words[1 + Earliest({i \in 1..(Len(words) - 1) : lower(words[i]) = <<"f","i","l","e">>})]

\* C24: for 'read file NAME', 'show file NAME' and 'open file NAME'
\* AgentWithTools invokes the file tool with NAME, the word that follows
\* 'file'.
FileToolGetsTheName ==
    Chatting /\ last.agent = "AgentWithTools" /\ last.input \in ReadRequests =>
        last.tool = "read_file" /\ last.arg = NameAfterFile(last.input)

\* the lines of the Math Specialist section of the last response
MathLines == last.ret.parts[1].lines
\* the section has one line, a successful calculation of the value n
ReportsOnly(n) ==
    /\ Len(MathLines) = 1
    /\ MathLines[1].success
    /\ MathLines[1].result.n = n * MathLines[1].result.d
MathTaskAsked(tasks) ==
    Chatting /\ last.agent = "MultiAgentSystem" /\ last.input \in tasks

\* C25: for 'square root of N' and 'sqrt(N)' the Math Specialist section of
\* MultiAgentSystem reports the square root of N: 12 for N = 144.
SquareRootIsReported ==
    MathTaskAsked(SquareRootTasks) =>
        last.ret.parts[1].agent = "Math Specialist" /\ ReportsOnly(12)

\* C26: for one arithmetic expression with two operators the Math Specialist
\* evaluates the whole expression under standard precedence: 1275 for
\* '25 * 47 + 100' and 14 for '2 + 3 * 4'.
WholeExpressionIsEvaluated ==
    MathTaskAsked(ExpressionTasks) =>
        /\ last.ret.parts[1].agent = "Math Specialist"
        /\ ReportsOnly(IF last.input = <<"c","a","l","c","u","l","a","t","e"," ","2"," ","+"," ","3"," ","*"," ","4">> THEN 14 ELSE 1275)

\* the marker of the rule an utterance triggers, and the text after its first
\* occurrence in any letter case
MarkerOf(user_input) == IF TextRuleTriggered(user_input) THEN <<"a","n","a","l","y","z","e",":">> ELSE <<"h","a","s","h",":">>
AfterMarker(user_input) ==
    strip(From(user_input, find(lower(user_input), MarkerOf(user_input)) + Len(MarkerOf(user_input))))

\* C27: when the text-analysis rule or the hash rule of CustomToolAgent matches
\* an utterance without a double quote, the marker is recognised in any letter
\* case and the text after it is handed to the tool, so the answer does not
\* depend on the letter case of the marker.
MarkerInAnyLetterCase ==
    Chatting /\ last.agent = "CustomToolAgent" /\ last.input \in MarkerRequests =>
        /\ last.tool = (IF TextRuleTriggered(last.input) THEN "analyze_text" ELSE "generate_hashes")
        /\ last.arg = AfterMarker(last.input)
        /\ last.ret.kind # "chat_error"

\* C28: the message list SimpleAgent sends to a Claude model starts with a
\* user turn, alternates between user and assistant turns and ends with the
\* current utterance, however many chats came before.
RequestStartsWithUserAndAlternates ==
    Chatting /\ last.agent = "SimpleAgent" /\ last.request.made /\ last.request.claude =>
        LET messages == last.request.messages
        IN  /\ messages # <<>>
            /\ messages[1].role = "user"
            /\ \A i \in 1..(Len(messages) - 1) : messages[i].role # messages[i + 1].role
            /\ messages[Len(messages)] = UserTurn(last.input)

RunAgentOps == {"chat", "get_status", "create_agent"}
\* the history of the agent under a key, loaded or not yet created
HistoryUnder(histories, agent_key) ==
    IF agent_key \in DOMAIN histories THEN histories[agent_key] ELSE <<>>

\* C29: run_agent never raises and always returns a string; for an unknown
\* agent type, or when the agent factory raises, it returns the failure
\* message and adds no entry to the agent cache; with an empty user_input it
\* returns the status text and leaves the agent's conversation history as it
\* was.
RunAgentAlwaysAnswers ==
    [][last'.op \in RunAgentOps =>
           /\ last'.exc = "" /\ last'.ret # NoResp
           /\ last'.agent[1] \in UnknownTypes \/ last'.caught # "" =>
                  /\ last'.ret.kind = "failed_to_create"
                  /\ conversation_history' = conversation_history
                  /\ operation_history' = operation_history
           /\ last'.input = <<>> /\ last'.ret.kind # "failed_to_create" =>
                  /\ last'.ret.kind = "agent_ready"
                  /\ conversation_history'[last'.agent] = HistoryUnder(conversation_history, last'.agent)]_vars
\* a status request answered by an agent that holds a conversation
StatusOfAgentInConversation ==
    /\ last.op = "get_status"
    /\ conversation_history[last.agent] # <<>>
\* a failure to create an agent after another agent was loaded
FailedBesideLoadedAgent ==
    /\ last.op = "create_agent"
    /\ DOMAIN conversation_history # {}

FileTools == {"list_directory", "read_file", "file_info", "search_files"}
UnloggedKinds == {"read_file_prompt", "file_info_prompt", "current_directory"} \cup CannedKinds
OfFileManager(op) == last'.op = op /\ last'.agent = "FileManagerAgent"

\* C30: the operation history of FileManagerAgent gets one entry for each
\* invocation of a file tool (list, read, info, search), in the order of the
\* invocations, and none for a clarification prompt, a current-directory
\* answer or a conversational reply; clear_history() empties it together with
\* the conversation history, and get_status() reports its length as
\* operations_performed.
OperationHistoryFollowsInvocations ==
    [][/\ OfFileManager("chat") =>
            /\ operation_history' =
                   IF last'.tool \in FileTools
                   THEN Append(operation_history, Entry2(last'.tool, last'.arg))
                   ELSE operation_history
            /\ last'.ret.kind \in UnloggedKinds => operation_history' = operation_history
       /\ OfFileManager("clear_history") =>
            operation_history' = <<>> /\ conversation_history'["FileManagerAgent"] = <<>>
       /\ OfFileManager("get_status") =>
            /\ last'.ret.val = NumV(Len(operation_history), 1)
            /\ operation_history' = operation_history
       /\ last'.agent # "FileManagerAgent" => operation_history' = operation_history]_vars
\* a second file-tool invocation logged after the first
TwoOperationsLogged ==
    /\ Chatting /\ last.agent = "FileManagerAgent" /\ last.tool \in FileTools
    /\ Len(operation_history) = 2

====
